---- MODULE Spec2Model ----
(***************************************************************************)
(* Model of the log analyzer: the chunker (utils/chunking_utils.py), the   *)
(* error fingerprint (utils/error_extraction.py), and the ingest /         *)
(* vectorize / query handlers (server.py) with the index persistence       *)
(* (utils/faiss_utils.py).                                                  *)
(*                                                                         *)
(* Strings are sequences of one-character strings.  Four specifications    *)
(* share the variables; each leaves the other parts idle:                  *)
(*   SpecChunk  the chunkers, applied to bounded texts and parameters      *)
(*   SpecFp     the fingerprint of bounded error blocks                    *)
(*   Spec       ingest and vectorize over a small log folder               *)
(*   SpecQuery  one query over a bounded snapshot and index                *)
(***************************************************************************)
EXTENDS Integers, Sequences, FiniteSets, TLC

VARIABLES
    \* ---- chunker run
    text, size, overlap, read_size, unit, mem_out, stream_out,
    \* ---- fingerprint run: two candidate blocks and the events built from them
    block_a, block_b, events_a, events_b,
    \* ---- ingest and vectorize: the source folder, LOG_FOLDER and the last results
    src_logs,          \* source log files: a set of [stem, ext, text]
    chunk_files,       \* LOG_FOLDER/<stem>__chunkNNNN.txt: <<stem, idx>> -> text
    cache_file,        \* .embedding_cache/embeddings.json: key -> vector
    vectors_json,      \* the newest vectors_<timestamp>.json
    latest_faiss,      \* faiss_index_latest.faiss
    latest_metadata,   \* faiss_index_latest.metadata
    ingest_result,     \* what the last fetch_local_logs returned
    vec_call,          \* the last store_chunks_as_vectors: its arguments, the chunks that failed
    vec_result,        \* what the last store_chunks_as_vectors returned
    \* ---- query_SFlogs: one query at a time, step by step
    index_fault,       \* what is wrong inside the faiss_index_latest files, if anything
    query,             \* the query text
    q_vec,             \* the query vector, <<>> before the embedding
    pc,                \* where query_SFlogs stands
    retrieved,         \* the list handed to error extraction and the response
    q_trace,           \* what this query has done so far
    response,          \* what call_tool answered
    \* ---- FAISSIndex objects: one that builds and saves, one that loads and searches
    w_index,           \* the FAISSIndex being built and saved
    w_pc,              \* where its save stands
    r_index,           \* the FAISSIndex that loads and searches
    r_pc,              \* where its load stands
    r_result,          \* what its last operation returned
    builds,            \* how many corpora have been built so far
    \* ---- the embedding pool of store_chunks_as_vectors
    futures,           \* one task per batch: its chunk text and where it stands
    cache_on,          \* whether the call has an EmbeddingCache (use_cache)
    mem_cache,         \* EmbeddingCache.cache: key -> vector
    total_saves,       \* EmbeddingCache.stats["total_saves"]
    saves_before,      \* total_saves when the pool started
    set_calls,         \* how many cache.set calls have returned
    pool_embedded,     \* newly_embedded: the chunks collected from the futures
    pool_pc,           \* where the main thread stands
    \* ---- query_SFlogs: ranking the clusters and selecting the examples
    clusters,          \* the clusters in the order their fingerprints were first seen
    is_broad,          \* is_all_errors or is_summary
    cluster_list,      \* the ranked clusters
    selected,          \* the examples selected for the response
    rank_pc,           \* where the handler stands
    \* ---- create_faiss_index_from_vectors: one call
    n_vectors,         \* len(vectors)
    configured_type,   \* Config.FAISS_INDEX_TYPE
    topology,          \* the index the call created, or what it raised
    \* ---- one EmbeddingCache object
    ecache,            \* EmbeddingCache.cache: key -> vector
    ecache_stats,      \* EmbeddingCache.stats
    ecache_ops,        \* the set and get calls so far, texts by their place in CacheTexts
    ecache_got,        \* what the last get returned
    \* ---- universal_severity_rank: one call
    sev_type,          \* err_type
    sev_msg,           \* msg
    sev_out,           \* the rank returned, -1 before the call
    \* ---- query_SFlogs: extracting and clustering the error events
    ex_log,            \* the source log: its stanzas and its text
    ex_chunks,         \* the texts of the retrieved chunks
    ex_done,           \* how many retrieved chunks have been extracted
    ex_candidates,     \* candidates of the last extract_error_events_universal
    ex_events,         \* the events it returned
    all_events,        \* the events of all chunks so far
    ex_clusters,       \* the clusters in the order their fingerprints were first seen
    ex_pc,             \* where the loop stands
    \* ---- fetch_local_logs over folders of named files
    src_folder,        \* the input folder when it is not LOG_FOLDER: name -> text
    log_folder,        \* LOG_FOLDER: name -> text
    same_folder,       \* the input folder is LOG_FOLDER (the default)
    walk_reverse,      \* which of two listing orders os.walk follows
    ing_runs           \* the calls so far: arguments, summary, files written

chunkVars == <<text, size, overlap, read_size, unit, mem_out, stream_out>>
fpVars == <<block_a, block_b, events_a, events_b>>

sysVars == <<src_logs, chunk_files, cache_file, vectors_json, latest_faiss,
             latest_metadata, ingest_result, vec_call, vec_result>>

qVars == <<index_fault, query, q_vec, pc, retrieved, q_trace, response>>

ixVars == <<w_index, w_pc, r_index, r_pc, r_result, builds>>

poolVars == <<futures, cache_on, mem_cache, total_saves, saves_before, set_calls,
              pool_embedded, pool_pc>>

rankVars == <<clusters, is_broad, cluster_list, selected, rank_pc>>

topoVars == <<n_vectors, configured_type, topology>>

cacheVars == <<ecache, ecache_stats, ecache_ops, ecache_got>>

sevVars == <<sev_type, sev_msg, sev_out>>

extVars == <<ex_log, ex_chunks, ex_done, ex_candidates, ex_events, all_events, ex_clusters, ex_pc>>

ingVars == <<src_folder, log_folder, same_folder, walk_reverse, ing_runs>>

vars == <<chunkVars, fpVars, sysVars, qVars, ixVars, poolVars, rankVars, topoVars, cacheVars, sevVars, extVars, ingVars>>

(***************************************************************************)
(* Generic helpers                                                         *)
(***************************************************************************)
Min(a, b) == IF a < b THEN a ELSE b
Max(a, b) == IF a > b THEN a ELSE b

\* Python's s[i:j] for 0 <= i, with j clamped to the length.
Slice(s, i, j) == SubSeq(s, i + 1, Min(j, Len(s)))

\* Python's s[i:]
Drop(s, i) == SubSeq(s, i + 1, Len(s))

RECURSIVE Flatten(_)
Flatten(ss) == IF ss = <<>> THEN <<>> ELSE Head(ss) \o Flatten(Tail(ss))

RECURSIVE JoinWith(_, _)
JoinWith(sep, ss) ==
    IF ss = <<>> THEN <<>>
    ELSE IF Len(ss) = 1 THEN Head(ss)
    ELSE Head(ss) \o sep \o JoinWith(sep, Tail(ss))

\* All sequences over S of length 0..n
SeqsUpTo(S, n) == UNION {[1..k -> S] : k \in 0..n}

(***************************************************************************)
(* Chunker: utils/chunking_utils.py                                        *)
(***************************************************************************)
SP == " "
NL == "\n"
IsSpace(c) == c \in {SP, NL}

\* The outcome of a chunker call: the chunks it returned, or the ValueError
\* validate_chunker raised (InvalidParameters); NotRun before the call.
InvalidParameters == [status |-> "InvalidParameters", chunks |-> <<>>]
NotRun == [status |-> "NotRun", chunks |-> <<>>]
Returned(cs) == [status |-> "ok", chunks |-> cs]

\* A validation that also rejects overlap = 0 (the rule 0 < overlap < size).
validate_chunker_positive_overlap(sz, ov) == sz > 0 /\ ov > 0 /\ ov < sz

\* TRUE when validate_chunker returns, FALSE when it raises ValueError.
validate_chunker(sz, ov) == ~(sz <= 0) /\ ~(ov < 0) /\ ~(ov >= sz)

\* str.split(): maximal runs of non-whitespace characters.
RECURSIVE SplitWords(_, _)
SplitWords(s, cur) ==
    IF s = <<>> THEN (IF cur = <<>> THEN <<>> ELSE <<cur>>)
    ELSE IF IsSpace(Head(s))
         THEN (IF cur = <<>> THEN <<>> ELSE <<cur>>) \o SplitWords(Tail(s), <<>>)
         ELSE SplitWords(Tail(s), Append(cur, Head(s)))

split(s) == SplitWords(s, <<>>)

\* str.splitlines(keepends=True), and the lines a text file iterates over.
RECURSIVE SplitLinesKeep(_, _)
SplitLinesKeep(s, cur) ==
    IF s = <<>> THEN (IF cur = <<>> THEN <<>> ELSE <<cur>>)
    ELSE IF Head(s) = NL
         THEN <<Append(cur, NL)>> \o SplitLinesKeep(Tail(s), <<>>)
         ELSE SplitLinesKeep(Tail(s), Append(cur, Head(s)))

splitlines_keepends(s) == SplitLinesKeep(s, <<>>)

\* The window loop shared by the in-memory chunkers:
\*   while i < n: out.append(items[i:i+size]); if i+size >= n: break; i += step
RECURSIVE MemWindows(_, _, _, _)
MemWindows(items, i, sz, step) ==
    IF ~(i < Len(items)) THEN <<>>
    ELSE <<Slice(items, i, i + sz)>>
         \o (IF i + sz >= Len(items) THEN <<>>
             ELSE MemWindows(items, i + step, sz, step))

\* A chunker whose loop has no early break on the final window.
RECURSIVE WindowsNoBreak(_, _, _, _)
WindowsNoBreak(items, i, sz, step) ==
    IF ~(i < Len(items)) THEN <<>>
    ELSE <<Slice(items, i, i + sz)>> \o WindowsNoBreak(items, i + step, sz, step)

chunks_chars_mem_no_break(t, sz, ov) ==
    IF ~validate_chunker(sz, ov) THEN InvalidParameters
    ELSE Returned(WindowsNoBreak(t, 0, sz, sz - ov))

chunks_chars_mem(t, sz, ov) ==
    IF ~validate_chunker(sz, ov) THEN InvalidParameters
    ELSE Returned(MemWindows(t, 0, sz, sz - ov))

chunks_words_mem(t, sz, ov) ==
    IF ~validate_chunker(sz, ov) THEN InvalidParameters
    ELSE LET w == MemWindows(split(t), 0, sz, sz - ov)
         IN  Returned([k \in 1..Len(w) |-> JoinWith(<<SP>>, w[k])])

chunks_lines_mem(t, sz, ov) ==
    IF ~validate_chunker(sz, ov) THEN InvalidParameters
    ELSE LET w == MemWindows(splitlines_keepends(t), 0, sz, sz - ov)
         IN  Returned([k \in 1..Len(w) |-> Flatten(w[k])])

\* while len(buf) >= size: yield buf[:size]; buf = buf[step:]
\* DrainOut is what is yielded, DrainRest the buffer left.
RECURSIVE DrainOut(_, _, _)
DrainOut(buf, sz, step) ==
    IF Len(buf) >= sz THEN <<Slice(buf, 0, sz)>> \o DrainOut(Drop(buf, step), sz, step)
    ELSE <<>>

RECURSIVE DrainRest(_, _, _)
DrainRest(buf, sz, step) ==
    IF Len(buf) >= sz THEN DrainRest(Drop(buf, step), sz, step) ELSE buf

\* stream_chunks_chars: rest is the unread part of the file.
RECURSIVE StreamCharsLoop(_, _, _, _, _)
StreamCharsLoop(rest, buf, sz, step, rd) ==
    LET data == Slice(rest, 0, rd)
    IN  IF data = <<>> THEN (IF buf # <<>> THEN <<buf>> ELSE <<>>)
        ELSE LET b == buf \o data
             IN  DrainOut(b, sz, step)
                 \o StreamCharsLoop(Drop(rest, rd), DrainRest(b, sz, step), sz, step, rd)

stream_chunks_chars(t, sz, ov, rd) ==
    IF ~validate_chunker(sz, ov) THEN InvalidParameters
    ELSE Returned(StreamCharsLoop(t, <<>>, sz, sz - ov, rd))

\* stream_chunks_words: token_buf holds whole words, carry the unfinished one.
RECURSIVE StreamWordsLoop(_, _, _, _, _, _)
StreamWordsLoop(rest, token_buf, carry, sz, step, rd) ==
    LET raw == Slice(rest, 0, rd)
    IN  IF raw = <<>>
        THEN LET tb == IF carry # <<>> THEN Append(token_buf, carry) ELSE token_buf
             IN  IF tb # <<>> THEN <<JoinWith(<<SP>>, tb)>> ELSE <<>>
        ELSE LET data == carry \o raw
                 parts == split(data)
                 ends_with_space == IsSpace(data[Len(data)])
                 carry2 == IF ~ends_with_space
                           THEN (IF parts # <<>> THEN parts[Len(parts)] ELSE data)
                           ELSE <<>>
                 parts2 == IF ~ends_with_space /\ parts # <<>>
                           THEN SubSeq(parts, 1, Len(parts) - 1) ELSE parts
                 tb == token_buf \o parts2
                 outw == DrainOut(tb, sz, step)
             IN  [k \in 1..Len(outw) |-> JoinWith(<<SP>>, outw[k])]
                 \o StreamWordsLoop(Drop(rest, rd), DrainRest(tb, sz, step), carry2,
                                    sz, step, rd)

stream_chunks_words(t, sz, ov, rd) ==
    IF ~validate_chunker(sz, ov) THEN InvalidParameters
    ELSE Returned(StreamWordsLoop(t, <<>>, <<>>, sz, sz - ov, rd))

\* stream_chunks_lines: window is the deque of lines.
RECURSIVE StreamLinesLoop(_, _, _, _)
StreamLinesLoop(lines, window, sz, step) ==
    IF lines = <<>> THEN (IF window # <<>> THEN <<Flatten(window)>> ELSE <<>>)
    ELSE LET w == Append(window, Head(lines))
         IN  IF Len(w) = sz
             THEN <<Flatten(w)>>
                  \o StreamLinesLoop(Tail(lines), Drop(w, Min(step, Len(w))), sz, step)
             ELSE StreamLinesLoop(Tail(lines), w, sz, step)

stream_chunks_lines(t, sz, ov) ==
    IF ~validate_chunker(sz, ov) THEN InvalidParameters
    ELSE Returned(StreamLinesLoop(splitlines_keepends(t), <<>>, sz, sz - ov))

(***************************************************************************)
(* Error fingerprint: utils/error_extraction.py                            *)
(***************************************************************************)
UpperSeq == <<"A","B","C","D","E","F","G","H","I","J","K","L","M",
              "N","O","P","Q","R","S","T","U","V","W","X","Y","Z">>
LowerSeq == <<"a","b","c","d","e","f","g","h","i","j","k","l","m",
              "n","o","p","q","r","s","t","u","v","w","x","y","z">>
Range(f) == {f[i] : i \in DOMAIN f}
Digits == {"0","1","2","3","4","5","6","7","8","9"}
HexChars == Digits \cup {"a","b","c","d","e","f","A","B","C","D","E","F"}
Letters == Range(UpperSeq) \cup Range(LowerSeq)
\* \w of the regular expressions
WordChars == Letters \cup Digits \cup {"_"}

\* str.lower() on one character and on a string
LowerChar(c) ==
    IF c \in Range(UpperSeq)
    THEN LowerSeq[CHOOSE i \in DOMAIN UpperSeq : UpperSeq[i] = c]
    ELSE c
lower(s) == [i \in DOMAIN s |-> LowerChar(s[i])]

\* str.strip(): leading and trailing whitespace removed
RECURSIVE lstrip(_)
lstrip(s) == IF s # <<>> /\ IsSpace(Head(s)) THEN lstrip(Tail(s)) ELSE s
RECURSIVE rstrip(_)
rstrip(s) ==
    IF s # <<>> /\ IsSpace(s[Len(s)]) THEN rstrip(SubSeq(s, 1, Len(s) - 1)) ELSE s
strip(s) == rstrip(lstrip(s))

\* s.startswith(p), and p in s
startswith(s, p) == Len(s) >= Len(p) /\ SubSeq(s, 1, Len(p)) = p
contains(s, p) == \E i \in 1..(Len(s) - Len(p) + 1) : SubSeq(s, i, i + Len(p) - 1) = p

\* The k-th smallest element of a set of positions
NthOf(K, k) == CHOOSE i \in K : Cardinality({j \in K : j <= i}) = k

\* str.splitlines(): the lines without their line ends.  A line starts at
\* position 1 and after every line end; it runs up to the next line end.
LineStarts(s) == {i \in 1..Len(s) : i = 1 \/ s[i - 1] = NL}
LineEnd(s, i) ==
    LET nls == {j \in i..Len(s) : s[j] = NL}
    IN  IF nls = {} THEN Len(s) ELSE (CHOOSE j \in nls : \A k \in nls : j <= k) - 1
splitlines(s) ==
    [k \in 1..Cardinality(LineStarts(s)) |->
        LET i == NthOf(LineStarts(s), k) IN SubSeq(s, i, LineEnd(s, i))]

\* A string cut into maximal runs of \w characters and single other
\* characters.  Every \b...\b pattern below consists of \w characters (and
\* '-' between runs), so it can only match whole runs.
RunStarts(s) ==
    {i \in 1..Len(s) : i = 1 \/ s[i] \notin WordChars \/ s[i - 1] \notin WordChars}
RunEnd(s, i) ==
    IF s[i] \notin WordChars THEN i
    ELSE LET stops == {j \in i..Len(s) : s[j] \notin WordChars}
         IN  IF stops = {} THEN Len(s)
             ELSE (CHOOSE j \in stops : \A k \in stops : j <= k) - 1
WordRuns(s) ==
    [k \in 1..Cardinality(RunStarts(s)) |->
        LET i == NthOf(RunStarts(s), k) IN SubSeq(s, i, RunEnd(s, i))]

IsHexRun(t, n) == Len(t) = n /\ \A i \in DOMAIN t : t[i] \in HexChars
DASH == <<"-">>
TagUUID == << <<"<">>, <<"U","U","I","D">>, <<">">> >>
TagHEX == << <<"<">>, <<"H","E","X">>, <<">">> >>
TagNUM == << <<"<">>, <<"N","U","M">>, <<">">> >>

\* _ID_UUID_RE at the head of a run list:
\* \b[0-9a-f]{8}-[0-9a-f]{4}-[1-5][0-9a-f]{3}-[89ab][0-9a-f]{3}-[0-9a-f]{12}\b
ID_UUID_RE_matches(ts) ==
    /\ Len(ts) >= 9
    /\ IsHexRun(ts[1], 8) /\ ts[2] = DASH
    /\ IsHexRun(ts[3], 4) /\ ts[4] = DASH
    /\ IsHexRun(ts[5], 4) /\ ts[5][1] \in {"1","2","3","4","5"} /\ ts[6] = DASH
    /\ IsHexRun(ts[7], 4) /\ ts[7][1] \in {"8","9","a","b","A","B"} /\ ts[8] = DASH
    /\ IsHexRun(ts[9], 12)

\* _ID_UUID_RE.sub('<UUID>', s)
RECURSIVE SubUUID(_)
SubUUID(ts) ==
    IF ts = <<>> THEN <<>>
    ELSE IF ID_UUID_RE_matches(ts) THEN TagUUID \o SubUUID(SubSeq(ts, 10, Len(ts)))
    ELSE <<Head(ts)>> \o SubUUID(Tail(ts))

\* _ID_HEX_RE = \b[0-9a-f]{8,}\b (IGNORECASE)
ID_HEX_RE_matches(t) == Len(t) >= 8 /\ \A i \in DOMAIN t : t[i] \in HexChars
\* _NUM_RE = \b\d+\b
NUM_RE_matches(t) == \A i \in DOMAIN t : t[i] \in Digits

RECURSIVE SubHEX(_)
SubHEX(ts) ==
    IF ts = <<>> THEN <<>>
    ELSE (IF ID_HEX_RE_matches(Head(ts)) THEN TagHEX ELSE <<Head(ts)>>)
         \o SubHEX(Tail(ts))

RECURSIVE SubNUM(_)
SubNUM(ts) ==
    IF ts = <<>> THEN <<>>
    ELSE (IF NUM_RE_matches(Head(ts)) THEN TagNUM ELSE <<Head(ts)>>)
         \o SubNUM(Tail(ts))

\* s.replace('\r\n', '\n'): every '\r' that a '\n' follows is dropped
ReplaceCRLF(s) ==
    LET keep == {i \in 1..Len(s) : ~(s[i] = "\r" /\ i < Len(s) /\ s[i + 1] = NL)}
    IN  [k \in 1..Cardinality(keep) |-> s[NthOf(keep, k)]]

\* A normaliser that replaces decimal numerals before hexadecimal identifiers.
normalize_num_before_hex(s, limit) ==
    Slice(lower(strip(Flatten(
        SubHEX(SubNUM(SubUUID(WordRuns(ReplaceCRLF(s)))))))), 0, limit)

normalize_text_for_fingerprint(s, limit) ==
    Slice(lower(strip(Flatten(
        SubNUM(SubHEX(SubUUID(WordRuns(ReplaceCRLF(s)))))))), 0, limit)

\* hashlib.sha1: modelled as a collision-free tag of its input.
sha1_hash(s) == <<"sha1", s>>

StemLimit == 220
FrameLimit == 140
MaxFrames == 5
ExcerptLimit == 4000

W_exception == <<"e","x","c","e","p","t","i","o","n">>
W_error == <<"e","r","r","o","r">>
W_fatal == <<"f","a","t","a","l">>
TypeChars == WordChars \cup {"."}

\* Length of the match of _ERR_TYPE_EXTRACT_RE at position i of s, 0 when
\* there is none.  Alternatives in order; the first is greedy:
\*   [A-Za-z_][A-Za-z0-9_\.]*Exception | System\.\w+Exception |
\*   Apex\.\w+Exception | Error | ERROR | FATAL      (IGNORECASE)
\* Whatever the second and third alternative match at i, the first matches
\* there too, and it is tried first.
ErrTypeMatchLen(s, i) ==
    LET ends == {e \in (i + 9)..Len(s) :
                    /\ s[i] \in Letters \cup {"_"}
                    /\ \A j \in i..e : s[j] \in TypeChars
                    /\ lower(SubSeq(s, e - 8, e)) = W_exception}
    IN  IF ends # {} THEN (CHOOSE e \in ends : \A f \in ends : f <= e) - i + 1
        ELSE IF lower(SubSeq(s, i, Min(i + 4, Len(s)))) = W_error THEN 5
        ELSE IF lower(SubSeq(s, i, Min(i + 4, Len(s)))) = W_fatal THEN 5
        ELSE 0

\* _ERR_TYPE_EXTRACT_RE.search(s): the leftmost match, <<>> when none
ERR_TYPE_EXTRACT_RE_search(s) ==
    LET at == {i \in 1..Len(s) : ErrTypeMatchLen(s, i) > 0}
    IN  IF at = {} THEN <<>>
        ELSE LET i == CHOOSE k \in at : \A j \in at : k <= j
             IN  SubSeq(s, i, i + ErrTypeMatchLen(s, i) - 1)

W_at == <<"a","t"," ">>
W_File == <<"F","i","l","e"," ">>
W_CausedBy == <<"C","a","u","s","e","d"," ","b","y",":">>
W_StackTrace == <<"S","t","a","c","k","T","r","a","c","e">>

IsFrameLine(ln) ==
    \/ startswith(lstrip(ln), W_at)
    \/ startswith(lstrip(ln), W_File)
    \/ contains(ln, W_CausedBy)
    \/ contains(ln, W_StackTrace)

\* The frame lines of a block (lines after the first), in order
RECURSIVE FrameLines(_)
FrameLines(lines) ==
    IF lines = <<>> THEN <<>>
    ELSE (IF IsFrameLine(Head(lines)) THEN <<strip(Head(lines))>> ELSE <<>>)
         \o FrameLines(Tail(lines))

\* The event extract_error_events_universal builds from one candidate
\* (block_text, meta type): lines 250-280.
BuildEvent(block_text, meta_type, path) ==
    LET lines == splitlines(block_text)
        head == IF block_text # <<>> THEN lines[1] ELSE <<>>
        m1 == ERR_TYPE_EXTRACT_RE_search(head)
        m == IF m1 # <<>> THEN m1 ELSE ERR_TYPE_EXTRACT_RE_search(block_text)
        err_type == IF m # <<>> THEN m ELSE meta_type
        message_stem == normalize_text_for_fingerprint(head, StemLimit)
        rest == IF lines = <<>> THEN <<>> ELSE Tail(lines)
        frame_lines == Slice(FrameLines(rest), 0, MaxFrames)
        top_frames == JoinWith(<<"|">>,
                        [k \in 1..Len(frame_lines) |->
                            normalize_text_for_fingerprint(frame_lines[k], FrameLimit)])
        fp_src == err_type \o <<"|">> \o message_stem \o <<"|">> \o top_frames
    IN  [fingerprint |-> sha1_hash(fp_src),
         error_type |-> err_type,
         message |-> strip(head),
         excerpt |-> Slice(block_text, 0, ExcerptLimit),
         path |-> path]

(***************************************************************************)
(* The extractors: utils/error_extraction.py extract_python_tracebacks,    *)
(* extract_java_like, extract_dotnet, extract_nginx_apache,                *)
(* extract_generic and extract_error_events_universal                      *)
(***************************************************************************)
endswith(s, p) == Len(s) >= Len(p) /\ SubSeq(s, Len(s) - Len(p) + 1, Len(s)) = p
\* The first index from i on whose line does not satisfy P: where a
\* 'while i < n and P(lines[i])' loop stops
RunEndWhere(lines, i, P(_)) ==
    LET stops == {j \in i..Len(lines) : ~P(lines[j])}
    IN  IF stops = {} THEN Len(lines) + 1
        ELSE CHOOSE j \in stops : \A k \in stops : j <= k
\* ('\n'.join(block).strip(), {"type": t})
Candidate(block, t) == [block |-> strip(JoinWith(<<NL>>, block)), type |-> t]

W_Traceback == <<"T","r","a","c","e","b","a","c","k"," ","(","m","o","s","t"," ","r","e","c","e","n","t"," ","c","a","l","l"," ","l","a","s","t",")",":">>
W_File2 == <<" "," ","F","i","l","e">>
W_Indent4 == <<" "," "," "," ">>
W_Error == <<"E","r","r","o","r">>
W_Exception == <<"E","x","c","e","p","t","i","o","n">>
W_During == <<"D","u","r","i","n","g"," ","h","a","n","d","l","i","n","g">>
W_GenericError == <<"G","e","n","e","r","i","c","E","r","r","o","r">>
W_PythonException == <<"P","y","t","h","o","n","E","x","c","e","p","t","i","o","n">>
W_JavaLikeException == <<"J","a","v","a","L","i","k","e","E","x","c","e","p","t","i","o","n">>
W_ApexException == <<"A","p","e","x","E","x","c","e","p","t","i","o","n">>
W_DotNetException == <<"D","o","t","N","e","t","E","x","c","e","p","t","i","o","n">>
W_WebServerError == <<"W","e","b","S","e","r","v","e","r","E","r","r","o","r">>
W_throwable == <<"t","h","r","o","w","a","b","l","e">>
W_FATAL_ERROR == <<"F","A","T","A","L","_","E","R","R","O","R">>
W_System == <<"S","y","s","t","e","m",".">>
W_ERROR == <<"E","R","R","O","R">>
W_FATAL == <<"F","A","T","A","L">>
W_Stack_Trace == <<"S","t","a","c","k"," ","T","r","a","c","e">>
W_ExceptionColon == <<"E","x","c","e","p","t","i","o","n",":">>
W_EndOfStack == <<"-","-","-"," ","E","n","d"," ","o","f"," ","s","t","a","c","k"," ","t","r","a","c","e">>
W_line == <<":","l","i","n","e">>
W_critical == <<"c","r","i","t","i","c","a","l">>
W_traceback == <<"t","r","a","c","e","b","a","c","k">>
W_unhandled == <<"u","n","h","a","n","d","l","e","d">>
WebLevels == {<<"[","e","r","r","o","r","]">>, <<"[","c","r","i","t","]">>, <<"[","a","l","e","r","t","]">>, <<"[","e","m","e","r","g","]">>}

IsPythonFrame(ln) == startswith(ln, W_File2) \/ startswith(ln, W_Indent4)
IsPythonTail(ln) ==
    contains(ln, W_Error) \/ contains(ln, W_Exception) \/ startswith(ln, W_During)
RECURSIVE PythonFrom(_, _)
PythonFrom(lines, i) ==
    IF i > Len(lines) THEN <<>>
    ELSE IF startswith(lines[i], W_Traceback)
    THEN LET j == RunEndWhere(lines, i + 1, IsPythonFrame)
             k == RunEndWhere(lines, j, IsPythonTail)
         IN  (IF k - i > 1
              THEN <<Candidate(SubSeq(lines, i, k - 1), W_PythonException)>>
              ELSE <<>>) \o PythonFrom(lines, k)
    ELSE PythonFrom(lines, i + 1)
extract_python_tracebacks(t) == PythonFrom(splitlines(t), 1)

\* _JAVA_HEAD_RE.match(ln):  .*(Exception|Error|Throwable)(:|\s|$)  IGNORECASE
JAVA_HEAD_RE_match(ln) ==
    \E w \in {W_exception, W_error, W_throwable} :
        \E i \in 1..(Len(ln) - Len(w) + 1) :
            /\ lower(SubSeq(ln, i, i + Len(w) - 1)) = w
            /\ \/ i + Len(w) > Len(ln)
               \/ ln[i + Len(w)] = ":"
               \/ IsSpace(ln[i + Len(w)])

\* What follows '^\s*at\s+' in ln, <<"no">> when ln does not start so
AfterAt(ln, ignorecase) ==
    LET s == lstrip(ln)
        at == IF ignorecase THEN lower(Slice(s, 0, 2)) ELSE Slice(s, 0, 2)
    IN  IF at = <<"a","t">> /\ Len(s) >= 3 /\ IsSpace(s[3])
        THEN lstrip(Drop(s, 2)) ELSE <<"no">>
\* The position of '(' behind the leading run '[...]+' of r, 0 when the
\* run is empty or something else follows it
CallOpen(r, class) ==
    LET n == RunEndWhere(r, 1, LAMBDA c : c \in class) - 1
    IN  IF n >= 1 /\ n < Len(r) /\ r[n + 1] = "(" THEN n + 1 ELSE 0

\* _JAVA_FRAME_RE.match(ln):  ^\s*at\s+[\w$.]+\(.*\)$
JAVA_FRAME_RE_match(ln) ==
    LET r == AfterAt(ln, FALSE)
        open == CallOpen(r, WordChars \cup {"$", "."})
    IN  r # <<"no">> /\ open > 0 /\ Len(r) > open /\ r[Len(r)] = ")"

\* The last position of u that holds no digit, 0 when there is none
LastNonDigit(u) ==
    LET nd == {j \in 1..Len(u) : u[j] \notin Digits}
    IN  IF nd = {} THEN 0 ELSE CHOOSE j \in nd : \A k \in nd : j >= k
\* The tail of _DOTNET_FRAME_RE:  \s*(in\s+.*?:line\s+\d+)?\s*$
DotNetTail(t) ==
    LET u == strip(t)
        d == Len(u) - LastNonDigit(u)
        v == SubSeq(u, 1, Len(u) - d)
        w == rstrip(v)
    IN  \/ u = <<>>
        \/ /\ d >= 1 /\ Len(w) < Len(v)
           /\ endswith(lower(w), W_line)
           /\ Len(w) - Len(W_line) >= 3
           /\ lower(Slice(u, 0, 2)) = <<"i","n">> /\ IsSpace(u[3])

\* _DOTNET_FRAME_RE.match(ln):
\*   ^\s*at\s+[\w$.]+\([^\)]*\)\s*(in\s+.*?:line\s+\d+)?\s*$   IGNORECASE
\* (the class also holds the back quote, which no line of the model contains)
DOTNET_FRAME_RE_match(ln) ==
    LET r == AfterAt(ln, TRUE)
        open == CallOpen(r, WordChars \cup {"$", "."})
        closes == {j \in (open + 1)..Len(r) : r[j] = ")"}
    IN  /\ r # <<"no">> /\ open > 0 /\ closes # {}
        /\ DotNetTail(Drop(r, CHOOSE j \in closes : \A k \in closes : j <= k))

IsJavaHead(ln) == JAVA_HEAD_RE_match(ln) \/ startswith(strip(ln), W_FATAL_ERROR)
IsJavaMore(ln) ==
    \/ JAVA_FRAME_RE_match(ln)
    \/ contains(ln, W_CausedBy)
    \/ contains(ln, W_Stack_Trace)
    \/ contains(ln, W_StackTrace)
RECURSIVE JavaFrom(_, _)
JavaFrom(lines, i) ==
    IF i > Len(lines) THEN <<>>
    ELSE IF IsJavaHead(lines[i])
    THEN LET k == RunEndWhere(lines, i + 1, IsJavaMore)
             block == SubSeq(lines, i, k - 1)
             frame_count == Cardinality({j \in 2..Len(block) : JAVA_FRAME_RE_match(block[j])})
             t == IF contains(block[1], W_FATAL_ERROR) \/ contains(block[1], W_System)
                  THEN W_ApexException ELSE W_JavaLikeException
         IN  (IF frame_count >= 1 THEN <<Candidate(block, t)>>
              ELSE IF \/ contains(block[1], W_Exception)
                      \/ contains(block[1], W_ERROR)
                      \/ contains(block[1], W_FATAL)
              THEN <<[block |-> strip(block[1]), type |-> W_GenericError]>>
              ELSE <<>>) \o JavaFrom(lines, k)
    ELSE JavaFrom(lines, i + 1)
extract_java_like(t) == JavaFrom(splitlines(t), 1)

IsDotNetHead(ln) ==
    \/ contains(ln, W_ExceptionColon)
    \/ endswith(strip(ln), W_Exception)
    \/ contains(ln, W_System)
IsDotNetMore(ln) == DOTNET_FRAME_RE_match(ln) \/ contains(ln, W_EndOfStack)
RECURSIVE DotNetFrom(_, _)
DotNetFrom(lines, i) ==
    IF i > Len(lines) THEN <<>>
    ELSE IF IsDotNetHead(lines[i])
    THEN LET k == RunEndWhere(lines, i + 1, IsDotNetMore)
             block == SubSeq(lines, i, k - 1)
             frame_count == Cardinality({j \in 2..Len(block) : DOTNET_FRAME_RE_match(block[j])})
         IN  (IF frame_count > 0 THEN <<Candidate(block, W_DotNetException)>> ELSE <<>>)
             \o DotNetFrom(lines, k)
    ELSE DotNetFrom(lines, i + 1)
extract_dotnet(t) == DotNetFrom(splitlines(t), 1)

\* _NGINX_APACHE_RE.match(ln), IGNORECASE:
\*   ^\S+\s+\S+\s+\S+\s+\[(error|crit|alert|emerg)\]\s+\S+:\s+.*$
\* three words, the level as the fourth, a fifth word that ends in ':' and
\* is followed by white space
WordStarts(ln) == {i \in 1..Len(ln) : ~IsSpace(ln[i]) /\ (i = 1 \/ IsSpace(ln[i - 1]))}
WordAt(ln, i) == SubSeq(ln, i, RunEndWhere(ln, i, LAMBDA c : ~IsSpace(c)) - 1)
NGINX_APACHE_RE_match(ln) ==
    LET starts == WordStarts(ln)
        words == [k \in 1..Min(5, Cardinality(starts)) |-> WordAt(ln, NthOf(starts, k))]
    IN  /\ ln # <<>> /\ ~IsSpace(ln[1])
        /\ Len(words) >= 5
        /\ lower(words[4]) \in WebLevels
        /\ Len(words[5]) >= 2 /\ words[5][Len(words[5])] = ":"
        /\ Cardinality(starts) >= 6 \/ IsSpace(ln[Len(ln)])
RECURSIVE NginxFrom(_, _)
NginxFrom(lines, i) ==
    IF i > Len(lines) THEN <<>>
    ELSE (IF NGINX_APACHE_RE_match(lines[i])
          THEN <<[block |-> strip(lines[i]), type |-> W_WebServerError]>>
          ELSE <<>>) \o NginxFrom(lines, i + 1)
extract_nginx_apache(t) == NginxFrom(splitlines(t), 1)

\* _GENERIC_ERR_RE.search(ln), IGNORECASE
GENERIC_ERR_RE_search(ln) ==
    \E w \in {W_error, W_critical, W_fatal, W_exception, W_traceback, W_unhandled} :
        contains(lower(ln), w)
context_lines == 6
IsNotBlank(ln) == strip(ln) # <<>>
RECURSIVE GenericFrom(_, _)
GenericFrom(lines, i) ==
    IF i > Len(lines) THEN <<>>
    ELSE (IF GENERIC_ERR_RE_search(lines[i])
          THEN LET stop == RunEndWhere(lines, i + 1, IsNotBlank)
                   last == Min(stop - 1, Min(i + context_lines - 1, Len(lines)))
               IN  <<Candidate(SubSeq(lines, i, last), W_GenericError)>>
          ELSE <<>>) \o GenericFrom(lines, i + 1)
extract_generic(t) == GenericFrom(splitlines(t), 1)

\* The order of the extractors in the for loop of
\* extract_error_events_universal
ExtractorOrder_java_first == <<"python", "java", "dotnet", "nginx", "generic">>
ExtractorOrder == <<"python", "dotnet", "java", "nginx", "generic">>
RunExtractor(fn, t) ==
    CASE fn = "python" -> extract_python_tracebacks(t)
      [] fn = "dotnet" -> extract_dotnet(t)
      [] fn = "java" -> extract_java_like(t)
      [] fn = "nginx" -> extract_nginx_apache(t)
      [] fn = "generic" -> extract_generic(t)
\* candidates after the for loop over the extractors in the given order
CandidatesIn(order, t) == Flatten([k \in DOMAIN order |-> RunExtractor(order[k], t)])

BlockPrefix == 800
BlockKey(block_text) == sha1_hash(Slice(block_text, 0, BlockPrefix))
\* the candidates the loop over candidates does not skip
\* (a variant without the seen_blocks test)
KeepAll(cands, seen_blocks) == cands
RECURSIVE KeepFirst(_, _)
KeepFirst(cands, seen_blocks) ==
    IF cands = <<>> THEN <<>>
    ELSE LET key == BlockKey(Head(cands).block)
         IN  IF key \in seen_blocks THEN KeepFirst(Tail(cands), seen_blocks)
             ELSE <<Head(cands)>> \o KeepFirst(Tail(cands), seen_blocks \cup {key})
EventsOf(candidates, path) ==
    LET kept == KeepFirst(candidates, {})
    IN  [k \in DOMAIN kept |-> BuildEvent(kept[k].block, kept[k].type, path)]
extract_error_events_universal(t, path) ==
    EventsOf(CandidatesIn(ExtractorOrder, t), path)

(***************************************************************************)
(* Ingest and vectorize: server.py fetch_local_logs, EmbeddingCache,       *)
(* store_chunks_as_vectors; utils/file_utils.py save_chunk_txt;            *)
(* utils/faiss_utils.py create_faiss_index_from_vectors, FAISSIndex.save   *)
(***************************************************************************)
EmptyMap == [x \in {} |-> <<>>]
NoFile == [exists |-> FALSE, rows |-> <<>>]
FileOf(rows) == [exists |-> TRUE, rows |-> rows]

\* A set of chunk paths <<stem, idx>> of one stem as a sequence by index (the
\* order of the zero-padded file names).
SortedPaths(S) ==
    [k \in 1..Cardinality(S) |->
        CHOOSE p \in S : Cardinality({q \in S : q[2] < p[2]}) = k - 1]

RECURSIVE SumOver(_, _)
SumOver(F, g) ==
    IF F = {} THEN 0
    ELSE LET f == CHOOSE x \in F : TRUE IN g[f] + SumOver(F \ {f}, g)

\* ---- fetch_local_logs ----------------------------------------------------
\* save_chunk_txt: the chunk file of chunk idx of source file f
ChunkPath(f, idx) == <<f.stem, idx>>

\* The chunks one source file contributes: none when chunks_chars_mem raised
\* (the except clause of the loop body logs a warning and goes on).
FileProcessed(f, chunk_size, ov) == chunks_chars_mem(f.text, chunk_size, ov).status = "ok"
FileChunks(f, chunk_size, ov) ==
    IF FileProcessed(f, chunk_size, ov)
    THEN chunks_chars_mem(f.text, chunk_size, ov).chunks ELSE <<>>

\* fetch_local_logs(input_folder = the source folder, chunk_size, overlap):
\* every chunk of every source file is written to LOG_FOLDER, a file whose
\* chunking raised is skipped, and the summary is returned in every case.
fetch_local_logs(chunk_size, ov) ==
    LET hit(p) == {f \in src_logs : p[1] = f.stem /\ p[2] <= Len(FileChunks(f, chunk_size, ov))}
        newpaths == {p \in UNION {{ChunkPath(f, i) : i \in 1..Len(f.text)} : f \in src_logs} :
                        hit(p) # {}}
        done == {f \in src_logs : FileProcessed(f, chunk_size, ov)}
        lens == [f \in src_logs |-> Len(FileChunks(f, chunk_size, ov))]
    IN  /\ chunk_files' =
              [p \in DOMAIN chunk_files \cup newpaths |->
                  IF p \in newpaths
                  THEN FileChunks(CHOOSE f \in hit(p) : TRUE, chunk_size, ov)[p[2]]
                  ELSE chunk_files[p]]
        /\ ingest_result' = [status |-> "ok", files |-> Cardinality(done),
                             chunks |-> SumOver(done, lens),
                             chunk_size |-> chunk_size, overlap |-> ov]

\* ---- EmbeddingCache ------------------------------------------------------
HashPrefix == 8000
\* EmbeddingCache.get_hash: sha256 of text[:8000].strip(), collision-free
\* A key of the whole stripped text
get_hash_whole_text(t) == <<"sha256", strip(t)>>
get_hash(t) == <<"sha256", strip(Slice(t, 0, HashPrefix))>>
\* embed_text(chunk["text"][:8000]): deterministic for identical input
embed_text(t) == <<"vec", Slice(t, 0, HashPrefix)>>

\* ---- store_chunks_as_vectors ---------------------------------------------
\* The chunks collected from LOG_FOLDER/**/*.txt, whitespace-only files skipped
all_chunks ==
    LET ps == SortedPaths({p \in DOMAIN chunk_files : strip(chunk_files[p]) # <<>>})
    IN  [k \in DOMAIN ps |-> [path |-> ps[k], text |-> chunk_files[ps[k]]]]

WithoutVector(rows) == [k \in DOMAIN rows |-> [path |-> rows[k].path, text |-> rows[k].text]]
VectorsOf(rows) == [k \in DOMAIN rows |-> rows[k].vector]

\* no store_chunks_as_vectors call yet
NoCall == [use_cache |-> FALSE, clear_cache |-> FALSE, failed |-> {}]

VecResult_embedded_total(st, total, cached, newly) ==
    [status |-> st, total |-> cached + newly, cached |-> cached, newly_embedded |-> newly]

VecResult(st, total, cached, newly) ==
    [status |-> st, total |-> total, cached |-> cached, newly_embedded |-> newly]

\* store_chunks_as_vectors(use_cache, clear_cache); fails is the set of chunk
\* paths whose embed_text call raises in this run.
store_chunks_as_vectors(use_cache, clear_cache, fails) ==
    LET cache == cache_file              \* EmbeddingCache() loads embeddings.json
        IsCached(c) == use_cache /\ get_hash(c.text) \in DOMAIN cache
        NotCached(c) == ~IsCached(c)
        Embedded(c) == c.path \notin fails
        hits == SelectSeq(all_chunks, IsCached)
        cached_chunks == [k \in DOMAIN hits |->
                            [path |-> hits[k].path, text |-> hits[k].text,
                             vector |-> cache[get_hash(hits[k].text)]]]
        chunks_to_embed == SelectSeq(all_chunks, NotCached)
        ok == SelectSeq(chunks_to_embed, Embedded)
        newly_embedded == [k \in DOMAIN ok |->
                             [path |-> ok[k].path, text |-> ok[k].text,
                              vector |-> embed_text(ok[k].text)]]
        all_embedded == cached_chunks \o newly_embedded
        total_chunks == Len(all_chunks)
    IN  /\ vec_call' = [use_cache |-> use_cache, clear_cache |-> clear_cache,
                        failed |-> fails]
        /\ IF clear_cache /\ use_cache
           THEN \* cache.clear(): EmbeddingCache defines no clear method, the
                \* AttributeError leaves the function
                /\ vec_result' = VecResult("AttributeError", 0, 0, 0)
                /\ UNCHANGED <<cache_file, vectors_json, latest_faiss, latest_metadata>>
           ELSE IF all_chunks = <<>>
           THEN /\ vec_result' = VecResult("no_chunks", 0, 0, 0)
                /\ UNCHANGED <<cache_file, vectors_json, latest_faiss, latest_metadata>>
           ELSE IF chunks_to_embed = <<>>
           THEN \* all cached: the snapshot is saved and the call returns
                /\ vectors_json' = FileOf(cached_chunks)
                /\ vec_result' = VecResult("success_all_cached", total_chunks,
                                           Len(cached_chunks), 0)
                /\ UNCHANGED <<cache_file, latest_faiss, latest_metadata>>
           ELSE /\ cache_file' =
                     IF use_cache
                     THEN [k \in DOMAIN cache \cup
                                 {get_hash(ok[i].text) : i \in DOMAIN ok} |->
                              IF \E i \in DOMAIN ok : get_hash(ok[i].text) = k
                              THEN LET last == CHOOSE i \in DOMAIN ok :
                                          /\ get_hash(ok[i].text) = k
                                          /\ \A j \in DOMAIN ok :
                                               get_hash(ok[j].text) = k => j <= i
                                   IN  embed_text(ok[last].text)
                              ELSE cache[k]]
                     ELSE cache_file
                /\ vectors_json' = FileOf(all_embedded)
                /\ IF all_embedded = <<>>
                   THEN \* create_faiss_index_from_vectors raises on the empty
                        \* array (vectors_array.shape[1]); the except returns
                        /\ vec_result' = VecResult("complete_index_failed", total_chunks,
                                                   Len(cached_chunks), Len(newly_embedded))
                        /\ UNCHANGED <<latest_faiss, latest_metadata>>
                   ELSE /\ latest_faiss' = FileOf(VectorsOf(all_embedded))
                        /\ latest_metadata' = FileOf(WithoutVector(all_embedded))
                        /\ vec_result' = VecResult("complete", total_chunks,
                                                   Len(cached_chunks), Len(newly_embedded))

(***************************************************************************)
(* Query: server.py query_SFlogs, utils/faiss_utils.py FAISSIndex          *)
(*                                                                         *)
(* Similarities and lexical shares are held in thousandths, blended scores *)
(* in millionths, so that 0.6 * sem + 0.25 * lex is 600 * sem + 250 * lex. *)
(***************************************************************************)
FAISS_TOP_K == 150
DefaultTopK == 75
MinSurvivors == 10
RelaxTopK == 50

summary_keywords ==
    { <<"s","u","m","m","a","r","i","z","e">>,
      <<"s","u","m","m","a","r","y">>,
      <<"o","v","e","r","v","i","e","w">>,
      <<"w","h","a","t"," ","h","a","p","p","e","n","e","d">>,
      <<"g","i","v","e"," ","m","e"," ","a"," ","s","u","m","m","a","r","y">>,
      <<"s","u","m","m","a","r","i","s","e">>,
      <<"s","u","m"," ","u","p">>,
      <<"r","e","c","a","p">>,
      <<"w","a","l","k"," ","m","e"," ","t","h","r","o","u","g","h">>,
      <<"k","e","y"," ","e","v","e","n","t","s">>,
      <<"a","g","g","r","e","g","a","t","e">>,
      <<"o","v","e","r","a","l","l">>,
      <<"r","o","o","t"," ","c","a","u","s","e">>,
      <<"r","c","a">>,
      <<"a","l","l"," ","e","r","r","o","r","s">>,
      <<"l","i","s","t"," ","e","r","r","o","r","s">> }
is_summarization_query(q) == \E k \in summary_keywords : contains(lower(q), k)

all_errors_keywords ==
    { <<"a","l","l"," ","e","r","r","o","r","s">>,
      <<"a","l","l"," ","u","n","i","q","u","e">>,
      <<"l","i","s","t"," ","e","r","r","o","r","s">> }
\* is_all_errors or is_summary
IsBroad(q) ==
    (\E k \in all_errors_keywords : contains(lower(q), k)) \/ is_summarization_query(q)

\* set(re.findall(r"\w+", s))
WordSet(s) == {w \in Range(WordRuns(s)) : w[1] \in WordChars}

\* lex = len(q_words & words_in_chunk) / max(len(q_words), 1)
Lexical(q_words, txt) ==
    (1000 * Cardinality(q_words \cap WordSet(lower(txt)))) \div Max(Cardinality(q_words), 1)

\* score = 0.6 * sem + 0.25 * lex if is_all_errors or is_summary else 0.7 * sem + 0.2 * lex
Blend(sem, lex, broad) == IF broad THEN 600 * sem + 250 * lex ELSE 700 * sem + 200 * lex
\* score_threshold = 0.15 if is_all_errors or is_summary else 0.20
ScoreThreshold(broad) == IF broad THEN 150000 ELSE 200000
TopK(broad) == IF broad THEN FAISS_TOP_K ELSE DefaultTopK

\* ---- vectors ---------------------------------------------------------------
\* Vectors are unit vectors (embed_text(..., normalize=True)) with integer
\* coordinates, so norms are 1 and the cosine is the dot product.
RECURSIVE DotTo(_, _, _)
DotTo(a, b, n) == IF n = 0 THEN 0 ELSE a[n] * b[n] + DotTo(a, b, n - 1)
RECURSIVE SqDistTo(_, _, _)
SqDistTo(a, b, n) ==
    IF n = 0 THEN 0 ELSE (a[n] - b[n]) * (a[n] - b[n]) + SqDistTo(a, b, n - 1)
\* np.dot of two vectors is defined for equal lengths only
SameShape(a, b) == Len(a) = Len(b)
\* cosine_similarity(a, b), for SameShape(a, b)
cosine_similarity(a, b) == 1000 * DotTo(a, b, Len(a))
\* np.exp(-distance), in thousandths
ExpNeg(d) ==
    CASE d = 0 -> 1000 [] d = 1 -> 368 [] d = 2 -> 135 [] d = 3 -> 50 [] OTHER -> 18

\* The positions of keys by descending key, equal keys in their given order
\* (list.sort(reverse=True) is stable).
RankDesc(keys, i) ==
    Cardinality({j \in DOMAIN keys : keys[j] > keys[i] \/ (keys[j] = keys[i] /\ j < i)})
SortedDesc(keys) ==
    CHOOSE order \in
        UNION { { [k \in DOMAIN ranks |-> CHOOSE i \in DOMAIN ranks : ranks[i] = k - 1] :
                    ranks \in {[i \in DOMAIN ks |-> RankDesc(ks, i)]} } :
                ks \in {keys} } : TRUE
\* rows in the order of their keys
Reordered(rows, order) == [k \in DOMAIN order |-> rows[order[k]]]

\* ---- FAISSIndex.search ---------------------------------------------------
\* The squared L2 distance of every stored vector to the query vector
Distances(vecs, qv) == [i \in DOMAIN vecs |-> SqDistTo(qv, vecs[i], Len(qv))]
\* The metadata rows of the nearest positions with their similarity;
\* positions without a metadata row are left out.
NearestRows(meta, dist, order, k) ==
    LET top == SubSeq(order, 1, Min(k, Len(order)))
        HasRow(i) == i <= Len(meta)
        valid == SelectSeq(top, HasRow)
    IN  [j \in DOMAIN valid |->
            [path |-> meta[valid[j]].path, text |-> meta[valid[j]].text,
             similarity |-> ExpNeg(dist[valid[j]])]]
\* FAISSIndex.search(query_vector, k): the k nearest stored vectors by
\* ascending distance.  Each stage is computed once and handed on.
faiss_search(vecs, meta, qv, k) ==
    CHOOSE results \in
        UNION { { NearestRows(meta, dist, order, k) :
                    order \in {SortedDesc([i \in DOMAIN dist |-> 0 - dist[i]])} } :
                dist \in {Distances(vecs, qv)} } : TRUE

\* ---- the two retrieval paths of query_SFlogs -----------------------------
Raised(e) == [raised |-> e, retrieved |-> <<>>, candidates |-> 0, survivors |-> 0,
              relaxed |-> FALSE]
Retrieved(rs, cand, surv, rel) ==
    [raised |-> "none", retrieved |-> rs, candidates |-> cand, survivors |-> surv,
     relaxed |-> rel]

\* One retrieved item: semantic and lexical share blended into the score
Item(path, txt, sem, q_words, broad) ==
    CHOOSE item \in
        { [score |-> Blend(sem, lex, broad), path |-> path,
           chunk |-> txt, semantic |-> sem, lexical |-> lex] :
            lex \in {Lexical(q_words, txt)} } : TRUE
\* The items that pass the score threshold
Kept(scored, broad) ==
    LET Passes(r) == r.score >= ScoreThreshold(broad) IN SelectSeq(scored, Passes)

\* The index results blended
ScoreResults(results, q_words, broad) ==
    [j \in DOMAIN results |->
        Item(results[j].path, results[j].text, results[j].similarity, q_words, broad)]
\* A variant of the relaxation that keeps every index result
RawResults_unsliced(results) ==
    [j \in DOMAIN results |->
        [score |-> 1000 * results[j].similarity, path |-> results[j].path,
         chunk |-> results[j].text, semantic |-> results[j].similarity,
         lexical |-> 0]]
\* The first 50 index results with the similarity as score and lexical 0.0
RawResults(results) ==
    LET head == SubSeq(results, 1, Min(RelaxTopK, Len(results)))
    IN  [j \in DOMAIN head |->
            [score |-> 1000 * head[j].similarity, path |-> head[j].path,
             chunk |-> head[j].text, semantic |-> head[j].similarity,
             lexical |-> 0]]
\* The blended items filtered, and replaced by the raw results when fewer
\* than 10 items pass.
IndexKeep(results, scored, kept) ==
    IF Len(kept) < MinSurvivors
    THEN Retrieved(RawResults(results), Len(scored), Len(kept), TRUE)
    ELSE Retrieved(kept, Len(scored), Len(kept), FALSE)
IndexSelect(results, q_words, broad) ==
    CHOOSE out \in
        UNION { { IndexKeep(results, scored, kept) : kept \in {Kept(scored, broad)} } :
                scored \in {ScoreResults(results, q_words, broad)} } : TRUE

\* The try block: load faiss_index_latest, search, blend, filter, relax.
index_path(q_words, broad, qv) ==
    LET vecs == latest_faiss.rows
    IN  IF ~latest_faiss.exists THEN Raised("FileNotFoundError")
        ELSE IF ~latest_metadata.exists THEN Raised("FileNotFoundError")
        ELSE IF index_fault = "corrupt" THEN Raised("RuntimeError")
        ELSE IF vecs = <<>>                  \* ntotal == 0: search returns []
             THEN IndexSelect(<<>>, q_words, broad)
        ELSE IF ~SameShape(vecs[1], qv) THEN Raised("AssertionError")
        ELSE IF index_fault = "bad_metadata" THEN Raised("TypeError")
        ELSE CHOOSE out \in
                { IndexSelect(results, q_words, broad) :
                    results \in {faiss_search(vecs, latest_metadata.rows, qv, TopK(broad))} } :
                TRUE

\* The snapshot rows that have a vector, blended
WithVector(data) == LET HasVec(e) == e.vector # <<>> IN SelectSeq(data, HasVec)
ScoreRows(data, q_words, broad, qv) ==
    CHOOSE all \in
        { [j \in DOMAIN rows |->
              Item(rows[j].path, rows[j].text, cosine_similarity(qv, rows[j].vector),
                   q_words, broad)] : rows \in {WithVector(data)} } : TRUE
\* The sorted items filtered, and replaced by the first 50 when fewer than
\* 10 pass and there are more than 10.
FallbackKeep(scored, kept) ==
    IF Len(kept) < MinSurvivors /\ Len(scored) > MinSurvivors
    THEN Retrieved(SubSeq(scored, 1, Min(RelaxTopK, Len(scored))),
                   Len(scored), Len(kept), TRUE)
    ELSE Retrieved(kept, Len(scored), Len(kept), FALSE)
FallbackSelect(scored, broad) ==
    LET top_k == Min(IF broad THEN 150 ELSE 75, Len(scored))
    IN  CHOOSE out \in
            { FallbackKeep(scored, kept) :
                kept \in {Kept(SubSeq(scored, 1, top_k), broad)} } : TRUE

\* A variant of the except block that hands the index error on
fallback_scan_propagates(data, q_words, broad, qv) == Raised(q_trace.index_error)

\* The except block: cosine scan over the rows of the snapshot, sorted by
\* descending score.
fallback_scan(data, q_words, broad, qv) ==
    IF \E j \in DOMAIN data : data[j].vector # <<>> /\ ~SameShape(qv, data[j].vector)
    THEN Raised("ValueError")
    ELSE CHOOSE out \in
            UNION { { FallbackSelect(scored, broad) :
                        scored \in {Reordered(all, SortedDesc([j \in DOMAIN all |-> all[j].score]))} } :
                    all \in {ScoreRows(data, q_words, broad, qv)} } : TRUE

\* ---- query_SFlogs, step by step ------------------------------------------
NoTrace == [embed_calls |-> 0, index_searches |-> 0, fallback_scans |-> 0,
            index_error |-> "none", path |-> "none",
            candidates |-> 0, survivors |-> 0, relaxed |-> FALSE]
NoResponse == [kind |-> "none", error |-> "none", results |-> <<>>,
               total_chunks_analyzed |-> 0]
ErrorResponse(e) == [kind |-> "error", error |-> e, results |-> <<>>,
                     total_chunks_analyzed |-> 0]

\* A variant that does not look for the snapshot before it embeds the query.
StartQuery_unchecked(q) ==
    /\ pc \in {"Idle", "Done"}
    /\ query' = q
    /\ q_vec' = <<>>
    /\ retrieved' = <<>>
    /\ q_trace' = NoTrace
    /\ response' = NoResponse /\ pc' = "Embedding"

\* The query arrives: the newest snapshot is looked up and loaded.
StartQuery(q) ==
    /\ pc \in {"Idle", "Done"}
    /\ query' = q
    /\ q_vec' = <<>>
    /\ retrieved' = <<>>
    /\ q_trace' = NoTrace
    /\ IF ~vectors_json.exists
       THEN response' = ErrorResponse("No vector JSON found") /\ pc' = "Done"
       ELSE IF vectors_json.rows = <<>>
       THEN response' = ErrorResponse("Vector JSON is empty") /\ pc' = "Done"
       ELSE response' = NoResponse /\ pc' = "Embedding"

\* A variant that swallows the embed error and goes on to the search.
EmbedQuery_swallowing(ok, qv) ==
    /\ pc = "Embedding"
    /\ q_trace' = [q_trace EXCEPT !.embed_calls = @ + 1]
    /\ pc' = "IndexSearch"
    /\ q_vec' = IF ok THEN qv ELSE <<>>
    /\ UNCHANGED <<query, retrieved, response>>

\* embed_text(query): a unit vector of the model's dimension, or an error.
EmbedQuery(ok, qv) ==
    /\ pc = "Embedding"
    /\ q_trace' = [q_trace EXCEPT !.embed_calls = @ + 1]
    /\ IF ok
       THEN q_vec' = qv /\ pc' = "IndexSearch" /\ UNCHANGED response
       ELSE /\ response' = ErrorResponse("Embedding failed")
            /\ pc' = "Done" /\ UNCHANGED q_vec
    /\ UNCHANGED <<query, retrieved>>

\* The try block.  An exception anywhere in it goes to the except block.
IndexSearch ==
    /\ pc = "IndexSearch"
    /\ \E q_words \in {WordSet(lower(query))}, broad \in {IsBroad(query)} :
       \E out \in {index_path(q_words, broad, q_vec)} :
           IF out.raised # "none"
           THEN /\ q_trace' = [q_trace EXCEPT !.index_searches = @ + 1,
                                              !.index_error = out.raised]
                /\ pc' = "FallbackScan"
                /\ UNCHANGED retrieved
           ELSE /\ q_trace' = [q_trace EXCEPT !.index_searches = @ + 1,
                                              !.path = "index",
                                              !.candidates = out.candidates,
                                              !.survivors = out.survivors,
                                              !.relaxed = out.relaxed]
                /\ retrieved' = out.retrieved
                /\ pc' = "Respond"
    /\ UNCHANGED <<query, q_vec, response>>

\* The except block.  An exception in it leaves query_SFlogs and call_tool
\* answers with the error.
FallbackScan ==
    /\ pc = "FallbackScan"
    /\ \E q_words \in {WordSet(lower(query))}, broad \in {IsBroad(query)} :
       \E out \in {fallback_scan(vectors_json.rows, q_words, broad, q_vec)} :
           IF out.raised # "none"
           THEN /\ q_trace' = [q_trace EXCEPT !.fallback_scans = @ + 1]
                /\ response' = ErrorResponse(out.raised)
                /\ pc' = "Done"
                /\ UNCHANGED retrieved
           ELSE /\ q_trace' = [q_trace EXCEPT !.fallback_scans = @ + 1,
                                              !.path = "fallback",
                                              !.candidates = out.candidates,
                                              !.survivors = out.survivors,
                                              !.relaxed = out.relaxed]
                /\ retrieved' = out.retrieved
                /\ pc' = "Respond"
                /\ UNCHANGED response
    /\ UNCHANGED <<query, q_vec>>

\* The response for retrieved chunks without error events: the first 50 items.
Respond ==
    /\ pc = "Respond"
    /\ LET first == SubSeq(retrieved, 1, Min(50, Len(retrieved)))
       IN  response' = [kind |-> "results", error |-> "none",
                        results |-> [k \in DOMAIN first |->
                                       [path |-> first[k].path, score |-> first[k].score]],
                        total_chunks_analyzed |-> Len(retrieved)]
    /\ pc' = "Done"
    /\ UNCHANGED <<query, q_vec, retrieved, q_trace>>

(***************************************************************************)
(* FAISSIndex: utils/faiss_utils.py                                        *)
(*                                                                         *)
(* A stored vector is <<"vec", c>> for the chunk c it embeds, a metadata   *)
(* row is [path |-> c]; a faiss index is its kind, whether it is trained   *)
(* and the vectors added to it.                                            *)
(***************************************************************************)
NoneIndex == [kind |-> "None", trained |-> FALSE, vectors |-> <<>>]
IVFTypes == {"IVFFlat", "IVFPQ"}
KnownTypes == {"Flat", "IVFFlat", "IVFPQ", "HNSW"}

\* FAISSIndex.__init__
FAISSIndex(dimension, index_type, nlist, nprobe) ==
    [dimension |-> dimension, index_type |-> index_type, nlist |-> nlist,
     nprobe |-> nprobe, index |-> NoneIndex, metadata |-> <<>>, is_trained |-> FALSE]

\* FAISSIndex._create_index: an empty faiss index; only the inverted-file
\* kinds need training
create_index(self) ==
    LET kind == IF self.index_type \in KnownTypes THEN self.index_type ELSE "Flat"
    IN  [kind |-> kind, trained |-> kind \notin IVFTypes, vectors |-> <<>>]

Outcome(self, raised, results) == [self |-> self, raised |-> raised, results |-> results]

\* FAISSIndex.build(vectors, metadata), vectors of dimension dim.  Training
\* an inverted-file index needs at least nlist vectors.
build(self, dim, vectors, metadata) ==
    IF Len(vectors) # Len(metadata) THEN Outcome(self, "ValueError", <<>>)
    ELSE IF dim # self.dimension THEN Outcome(self, "ValueError", <<>>)
    ELSE IF self.index_type \in IVFTypes /\ Len(vectors) < self.nlist
    THEN Outcome([self EXCEPT !.index = create_index(self)], "RuntimeError", <<>>)
    ELSE Outcome([self EXCEPT !.index = [create_index(self) EXCEPT
                                            !.trained = TRUE, !.vectors = vectors],
                              !.is_trained = self.index_type \in IVFTypes,
                              !.metadata = metadata],
                 "none", <<>>)

\* FAISSIndex.search(query_vector, k) on an index whose vectors all have
\* the dimension of the query: the first k positions that have a metadata
\* row (every stored vector is equally far from the query).
search(self, k) ==
    IF self.index.kind = "None" \/ self.index.vectors = <<>>
    THEN Outcome(self, "none", <<>>)
    ELSE LET top == SubSeq(self.index.vectors, 1, Min(k, Len(self.index.vectors)))
             HasRow(i) == i <= Len(self.metadata)
             valid == SelectSeq([i \in DOMAIN top |-> i], HasRow)
         IN  Outcome(self, "none",
                     [j \in DOMAIN valid |->
                         [vector |-> top[valid[j]], row |-> self.metadata[valid[j]]]])

\* The two files FAISSIndex.save writes, in the order it writes them
FaissFile(self) == [exists |-> TRUE, rows |-> self.index.vectors, readable |-> TRUE,
                    kind |-> self.index.kind, trained |-> self.index.trained]
MetadataFile(self) ==
    [exists |-> TRUE, rows |-> self.metadata, readable |-> TRUE,
     dimension |-> self.dimension, index_type |-> self.index_type,
     nlist |-> self.nlist, nprobe |-> self.nprobe, is_trained |-> self.is_trained]

\* FAISSIndex.load, first statement: both files must exist
load_check(faiss_file, metadata_file) ==
    IF ~faiss_file.exists \/ ~metadata_file.exists THEN "FileNotFoundError" ELSE "none"
\* self.index = faiss.read_index(index_file)
load_index(self, faiss_file) ==
    IF ~faiss_file.readable THEN Outcome(self, "RuntimeError", <<>>)
    ELSE Outcome([self EXCEPT !.index = [kind |-> faiss_file.kind,
                                         trained |-> faiss_file.trained,
                                         vectors |-> faiss_file.rows]], "none", <<>>)
\* data = pickle.load(f) and the assignments from it
load_metadata(self, metadata_file) ==
    IF ~metadata_file.readable THEN Outcome(self, "UnpicklingError", <<>>)
    ELSE Outcome([self EXCEPT !.metadata = metadata_file.rows,
                              !.dimension = metadata_file.dimension,
                              !.index_type = metadata_file.index_type,
                              !.nlist = metadata_file.nlist,
                              !.nprobe = metadata_file.nprobe,
                              !.is_trained = metadata_file.is_trained], "none", <<>>)

\* ---- create_faiss_index_from_vectors ---------------------------------------
SmallLimit == 1000
MediumLimit == 10000
\* The parameters taken whatever the size: Config.FAISS_NLIST clusters
Topology_fixed(n, index_type) ==
    [index_type |-> IF n < SmallLimit THEN "Flat" ELSE index_type,
     nlist |-> 100, nprobe |-> 10]
\* The parameters chosen from the number of vectors; nlist or 100, nprobe or 10
\* stand in where the small branch left them None
Topology(n, index_type) ==
    IF n < SmallLimit
    THEN [index_type |-> "Flat", nlist |-> 100, nprobe |-> 10]
    ELSE IF n < MediumLimit
    THEN LET nlist == Min(100, n \div 10)
         IN  [index_type |-> index_type, nlist |-> nlist, nprobe |-> Min(10, nlist)]
    ELSE LET nlist == Min(1000, n \div 50)
         IN  [index_type |-> index_type, nlist |-> nlist, nprobe |-> Min(20, nlist)]

\* create_faiss_index_from_vectors(vectors, metadata, index_type) without a
\* dimension: the dimension is read from the array, which an empty list
\* does not have; otherwise the FAISSIndex is created and built
create_faiss_index_from_vectors(n, index_type, dimension) ==
    IF n = 0 THEN [raised |-> "IndexError", index_type |-> "None", nlist |-> 0,
                   nprobe |-> 0, kind |-> "None"]
    ELSE LET t == Topology(n, index_type)
             self == FAISSIndex(dimension, t.index_type, t.nlist, t.nprobe)
         IN  [raised |-> "none", index_type |-> self.index_type, nlist |-> self.nlist,
              nprobe |-> self.nprobe, kind |-> create_index(self).kind]

(***************************************************************************)
(* Cluster ranking and selection: server.py query_SFlogs,                  *)
(* utils/error_extraction.py universal_severity_rank                       *)
(*                                                                         *)
(* An excerpt is held by its length: the selection only measures it.       *)
(***************************************************************************)
severity_keywords ==
    [level \in 1..5 |->
        CASE level = 5 -> { <<"f","a","t","a","l">>,
                          <<"p","a","n","i","c">>,
                          <<"o","u","t","o","f","m","e","m","o","r","y">>,
                          <<"o","u","t"," ","o","f"," ","m","e","m","o","r","y">>,
                          <<"s","e","g","f","a","u","l","t">>,
                          <<"e","m","e","r","g">> }
          [] level = 4 -> { <<"c","r","a","s","h">>,
                          <<"d","e","a","d","l","o","c","k">>,
                          <<"d","a","t","a"," ","l","o","s","s">>,
                          <<"c","o","r","r","u","p","t">> }
          [] level = 3 -> { <<"t","i","m","e","o","u","t">>,
                          <<"d","e","a","d","l","i","n","e">>,
                          <<"n","u","l","l","p","o","i","n","t","e","r">>,
                          <<"n","u","l","l"," ","p","o","i","n","t","e","r">>,
                          <<"u","n","a","u","t","h","o","r","i","z","e","d">>,
                          <<"p","e","r","m","i","s","s","i","o","n">>,
                          <<"a","c","c","e","s","s"," ","d","e","n","i","e","d">> }
          [] level = 2 -> { <<"e","r","r","o","r">>,
                          <<"e","x","c","e","p","t","i","o","n">>,
                          <<"a","s","s","e","r","t">> }
          [] level = 1 -> { <<"w","a","r","n">>,
                          <<"w","a","r","n","i","n","g">> }]

\* A rank that takes the first level found from the bottom
universal_severity_rank_lowest(err_type, msg) ==
    LET s == lower(err_type \o <<SP>> \o msg)
        hit(level) == \E k \in severity_keywords[level] : contains(s, k)
    IN  IF hit(1) THEN 1 ELSE IF hit(2) THEN 2 ELSE IF hit(3) THEN 3
        ELSE IF hit(4) THEN 4 ELSE IF hit(5) THEN 5 ELSE 0

\* universal_severity_rank(err_type, msg): the highest level with a keyword
\* in the lower-cased "err_type msg", 0 when there is none
universal_severity_rank(err_type, msg) ==
    LET s == lower(err_type \o <<SP>> \o msg)
        hit(level) == \E k \in severity_keywords[level] : contains(s, k)
    IN  IF hit(5) THEN 5 ELSE IF hit(4) THEN 4 ELSE IF hit(3) THEN 3
        ELSE IF hit(2) THEN 2 ELSE IF hit(1) THEN 1 ELSE 0

\* The entry of cluster_list built from one cluster
Ranked(fp, info) ==
    [fingerprint |-> fp, error_type |-> info.error_type, freq |-> Len(info.events),
     severity |-> universal_severity_rank(info.error_type, info.events[1].message),
     exemplar |-> info.events[1],
     paths |-> Slice(info.paths, 0, 5)]

\* key=lambda c: (c["severity"], c["freq"])
ClusterKey_freq_first(c) == <<c.freq, c.severity>>
ClusterKey(c) == <<c.severity, c.freq>>
KeyGreater(a, b) == a[1] > b[1] \/ (a[1] = b[1] /\ a[2] > b[2])

\* cluster_list.sort(key=..., reverse=True): descending by key, clusters with
\* equal keys in their order before the sort
RankClustersDesc(list) ==
    LET keys == [i \in DOMAIN list |-> ClusterKey(list[i])]
        before(j, i) == KeyGreater(keys[j], keys[i]) \/ (keys[j] = keys[i] /\ j < i)
        rank == [i \in DOMAIN list |-> Cardinality({j \in DOMAIN list : before(j, i)})]
    IN  [k \in DOMAIN list |-> list[CHOOSE i \in DOMAIN list : rank[i] = k - 1]]

\* len(str(n)) for n >= 0
RECURSIVE DecLen(_)
DecLen(n) == IF n < 10 THEN 1 ELSE 1 + DecLen(n \div 10)

W_Unknown == <<"U","n","k","n","o","w","n">>
W_comma == <<",", " ">>
\* len(snip) for
\*   "[{error_type} x{freq} | Severity: {severity}]\nFiles: {paths_str}\n{excerpt}\n---"
SnipLen(c) ==
    LET paths_str == IF c.paths # <<>> THEN JoinWith(W_comma, c.paths) ELSE W_Unknown
    IN  1 + Len(c.error_type) + 2 + DecLen(c.freq) + 13 + DecLen(c.severity) + 1 + 1
        + 7 + Len(paths_str) + 1 + c.exemplar.excerpt_len + 1 + 3

BroadBudget == 35000
DefaultBudget == 25000
Budget(broad) == IF broad THEN BroadBudget ELSE DefaultBudget

Pattern(c) == [path |-> c.exemplar.path, kind |-> "pattern",
               fingerprint |-> c.fingerprint, length |-> SnipLen(c), remaining |-> 0]
\* "... and {remaining} more error patterns not shown"
Marker(remaining) == [path |-> "summary", kind |-> "marker", fingerprint |-> 0,
                      length |-> 0, remaining |-> remaining]

\* A selection loop that goes on after a cluster that does not fit
RECURSIVE SelectFrom_skipping(_, _, _, _, _)
SelectFrom_skipping(list, i, sel, total, budget) ==
    IF i > Len(list) THEN sel
    ELSE IF total + SnipLen(list[i]) > budget
    THEN SelectFrom_skipping(list, i + 1, sel, total, budget)
    ELSE SelectFrom_skipping(list, i + 1, Append(sel, Pattern(list[i])),
                             total + SnipLen(list[i]), budget)

\* The loop over cluster_list from position i on
RECURSIVE SelectFrom(_, _, _, _, _)
SelectFrom(list, i, sel, total, budget) ==
    IF i > Len(list) THEN sel
    ELSE IF total + SnipLen(list[i]) > budget
    THEN LET remaining == Len(list) - Len(sel)
         IN  IF remaining > 0 THEN Append(sel, Marker(remaining)) ELSE sel
    ELSE SelectFrom(list, i + 1, Append(sel, Pattern(list[i])),
                    total + SnipLen(list[i]), budget)

(***************************************************************************)
(* SpecChunk: every chunker applied to bounded inputs                      *)
(***************************************************************************)
MaxTextLen == 4
MaxSize == 3
MaxRead == 3
Alphabet == {"a", "b", SP, NL}
Units == {"chars", "words", "lines"}

ChunkIdle ==
    /\ text = <<>> /\ size = 1 /\ overlap = 0 /\ read_size = 1
    /\ unit = "none" /\ mem_out = NotRun /\ stream_out = NotRun

ChunkStart ==
    /\ text \in SeqsUpTo(Alphabet, MaxTextLen)
    /\ size \in 0..MaxSize
    /\ overlap \in -1..MaxSize
    /\ read_size \in 1..MaxRead
    /\ unit \in Units
    /\ mem_out = NotRun
    /\ stream_out = NotRun

CallCharsMem ==
    /\ unit = "chars" /\ mem_out = NotRun
    /\ mem_out' = chunks_chars_mem(text, size, overlap)
    /\ UNCHANGED <<text, size, overlap, read_size, unit, stream_out, fpVars, sysVars, qVars, ixVars, poolVars, rankVars, topoVars, cacheVars, sevVars, extVars, ingVars>>

CallWordsMem ==
    /\ unit = "words" /\ mem_out = NotRun
    /\ mem_out' = chunks_words_mem(text, size, overlap)
    /\ UNCHANGED <<text, size, overlap, read_size, unit, stream_out, fpVars, sysVars, qVars, ixVars, poolVars, rankVars, topoVars, cacheVars, sevVars, extVars, ingVars>>

CallLinesMem ==
    /\ unit = "lines" /\ mem_out = NotRun
    /\ mem_out' = chunks_lines_mem(text, size, overlap)
    /\ UNCHANGED <<text, size, overlap, read_size, unit, stream_out, fpVars, sysVars, qVars, ixVars, poolVars, rankVars, topoVars, cacheVars, sevVars, extVars, ingVars>>

CallStreamChars ==
    /\ unit = "chars" /\ stream_out = NotRun
    /\ stream_out' = stream_chunks_chars(text, size, overlap, read_size)
    /\ UNCHANGED <<text, size, overlap, read_size, unit, mem_out, fpVars, sysVars, qVars, ixVars, poolVars, rankVars, topoVars, cacheVars, sevVars, extVars, ingVars>>

CallStreamWords ==
    /\ unit = "words" /\ stream_out = NotRun
    /\ stream_out' = stream_chunks_words(text, size, overlap, read_size)
    /\ UNCHANGED <<text, size, overlap, read_size, unit, mem_out, fpVars, sysVars, qVars, ixVars, poolVars, rankVars, topoVars, cacheVars, sevVars, extVars, ingVars>>

CallStreamLines ==
    /\ unit = "lines" /\ stream_out = NotRun
    /\ stream_out' = stream_chunks_lines(text, size, overlap)
    /\ UNCHANGED <<text, size, overlap, read_size, unit, mem_out, fpVars, sysVars, qVars, ixVars, poolVars, rankVars, topoVars, cacheVars, sevVars, extVars, ingVars>>

(***************************************************************************)
(* SpecFp: the events built from two blocks that differ only in the value  *)
(* of an embedded numeral, hexadecimal identifier or UUID                  *)
(***************************************************************************)
MaxDigits == 8
MaxHexLen == 9
HexMinLen == 8

Repeat(c, n) == [k \in 1..n |-> c]

Numerals == {Repeat(d, n) : d \in {"1", "2"}, n \in 1..MaxDigits}
HexIds == {<<c>> \o Repeat("0", n - 1) : c \in {"a", "f"}, n \in HexMinLen..MaxHexLen}
UUIDOf(c, ver) ==
    Repeat(c, 8) \o DASH \o Repeat(c, 4) \o DASH \o <<ver>> \o Repeat(c, 3) \o DASH
    \o <<"8">> \o Repeat(c, 3) \o DASH \o Repeat(c, 12)
UUIDs == {UUIDOf(c, ver) : c \in {"0", "f"}, ver \in {"1", "4"}}
VolatileKinds == {Numerals, HexIds, UUIDs}

\* "ERROR job <v>"
BlockErrorLine(v) == <<"E","R","R","O","R"," ","j","o","b"," ">> \o v
\* "IOException: id <v>" / "  at run(Job:<v>)"
BlockWithFrame(v) ==
    <<"I","O","E","x","c","e","p","t","i","o","n",":"," ","i","d"," ">> \o v
    \o <<NL, " ", " ", "a","t"," ","r","u","n","(","J","o","b",":">> \o v \o <<")">>

W_path == <<"a",".","l","o","g">>

FpIdle == block_a = <<>> /\ block_b = <<>> /\ events_a = <<>> /\ events_b = <<>>

FpStart ==
    /\ \E K \in VolatileKinds : \E v \in K, w \in K :
          \/ block_a = BlockErrorLine(v) /\ block_b = BlockErrorLine(w)
          \/ block_a = BlockWithFrame(v) /\ block_b = BlockWithFrame(w)
    /\ events_a = <<>>
    /\ events_b = <<>>

\* extract_error_events_universal on each block (each is one candidate)
ExtractEvents ==
    /\ block_a # <<>> /\ events_a = <<>>
    /\ events_a' = <<BuildEvent(block_a, W_GenericError, W_path)>>
    /\ events_b' = <<BuildEvent(block_b, W_GenericError, W_path)>>
    /\ UNCHANGED <<block_a, block_b, chunkVars, sysVars, qVars, ixVars, poolVars, rankVars, topoVars, cacheVars, sevVars, extVars, ingVars>>

(***************************************************************************)
(* Spec: ingest and vectorize over a small source folder                   *)
(***************************************************************************)
MaxLogLen == 2
MaxChunkSize == 2
LogAlphabet == {"a", "b"}

SysIdle ==
    /\ src_logs = {} /\ chunk_files = EmptyMap /\ cache_file = EmptyMap
    /\ vectors_json = NoFile /\ latest_faiss = NoFile /\ latest_metadata = NoFile
    /\ ingest_result = [status |-> "none", files |-> 0, chunks |-> 0,
                        chunk_size |-> 1, overlap |-> 0]
    /\ vec_call = NoCall
    /\ vec_result = VecResult("none", 0, 0, 0)

\* One source log in the source folder, LOG_FOLDER empty, nothing run yet.
\* The log starts with "a": exchanging the two letters changes nothing.
SysStart ==
    /\ \E t \in SeqsUpTo(LogAlphabet, MaxLogLen) :
          /\ t # <<>> /\ t[1] = "a"
          /\ src_logs = {[stem |-> "app", ext |-> ".log", text |-> t]}
    /\ chunk_files = EmptyMap /\ cache_file = EmptyMap
    /\ vectors_json = NoFile /\ latest_faiss = NoFile /\ latest_metadata = NoFile
    /\ ingest_result = [status |-> "none", files |-> 0, chunks |-> 0,
                        chunk_size |-> 1, overlap |-> 0]
    /\ vec_call = NoCall
    /\ vec_result = VecResult("none", 0, 0, 0)

Ingest ==
    /\ \E chunk_size \in 0..MaxChunkSize, ov \in 0..MaxChunkSize :
          fetch_local_logs(chunk_size, ov)
    /\ UNCHANGED <<src_logs, cache_file, vectors_json, latest_faiss, latest_metadata,
                   vec_call, vec_result, chunkVars, fpVars, qVars, ixVars, poolVars, rankVars, topoVars, cacheVars, sevVars, extVars, ingVars>>

\* The chunks a call would hand to embed_text: those are the calls that can fail.
ToEmbed(use_cache, clear_cache) ==
    IF clear_cache /\ use_cache THEN {}
    ELSE {p \in DOMAIN chunk_files :
            /\ strip(chunk_files[p]) # <<>>
            /\ ~(use_cache /\ get_hash(chunk_files[p]) \in DOMAIN cache_file)}

Vectorize ==
    /\ \E use_cache \in BOOLEAN, clear_cache \in BOOLEAN :
       \E fails \in SUBSET ToEmbed(use_cache, clear_cache) :
          store_chunks_as_vectors(use_cache, clear_cache, fails)
    /\ UNCHANGED <<src_logs, chunk_files, ingest_result, chunkVars, fpVars, qVars, ixVars, poolVars, rankVars, topoVars, cacheVars, sevVars, extVars, ingVars>>

(***************************************************************************)
(* SpecQuery: queries against a bounded corpus and every state of the      *)
(* 'latest' index files                                                    *)
(***************************************************************************)
MaxNear == 10
MaxFar == 11
EmbedDim == 2

T_x == <<"x">>
T_db == <<"d","b">>
Queries == { <<"d","b">>,
             <<"r","c","a"," ","d","b">>,
             <<"a","l","l"," ","u","n","i","q","u","e">> }

\* The unit vector of dimension dim along axis
Unit(dim, axis) == [i \in 1..dim |-> IF i = axis THEN 1 ELSE 0]

\* A snapshot of n_far chunks across the query direction, n_lex of them
\* sharing a word with the query, then n_near chunks along the query.
Corpus(n_far, n_lex, n_near, dim) ==
    [k \in 1..(n_far + n_near) |->
        [path |-> <<"app", k>>,
         text |-> IF k <= n_lex THEN T_db ELSE T_x,
         vector |-> Unit(dim, IF k <= n_far THEN 2 ELSE 1)]]

\* A snapshot wider than the relaxation keeps: 50 chunks across the query
\* direction and one against it that shares a word with the query.
Against(dim) == [i \in 1..dim |-> IF i = 1 THEN 0 - 1 ELSE 0]
WideCorpus(dim) ==
    [k \in 1..(RelaxTopK + 1) |->
        [path |-> <<"app", k>>,
         text |-> IF k > RelaxTopK THEN T_db ELSE T_x,
         vector |-> IF k > RelaxTopK THEN Against(dim) ELSE Unit(dim, 2)]]
RowsOf(wide, n_far, n_lex, n_near, dim) ==
    IF wide THEN WideCorpus(dim) ELSE Corpus(n_far, n_lex, n_near, dim)
\* rows, and after them one chunk against the query direction that holds
\* the words "rca" and "db"
T_rca_db == <<"r","c","a"," ","d","b">>
WithOpposite(rows, dim) ==
    Append(rows, [path |-> <<"app", Len(rows) + 1>>, text |-> T_rca_db,
                  vector |-> Against(dim)])

NearCounts == {0, MaxNear - 1, MaxNear}
FarCounts == {0, 1, MaxFar}
Dims == {EmbedDim, EmbedDim + 1}
IndexKinds == {"ok", "no_faiss", "no_metadata", "corrupt", "bad_metadata", "other_dim"}

QueryIdle ==
    /\ index_fault = "none" /\ query = <<>> /\ q_vec = <<>> /\ pc = "Off"
    /\ retrieved = <<>> /\ q_trace = NoTrace /\ response = NoResponse

\* The files a query finds: a snapshot (or none), and the 'latest' index
\* files of some earlier vectorize, possibly missing or damaged, possibly
\* written by an embedding model of another dimension.
QueryEnv ==
    /\ src_logs = {} /\ chunk_files = EmptyMap /\ cache_file = EmptyMap
    /\ ingest_result = [status |-> "none", files |-> 0, chunks |-> 0,
                        chunk_size |-> 1, overlap |-> 0]
    /\ vec_call = NoCall
    /\ vec_result = VecResult("none", 0, 0, 0)
    /\ \E n_far \in FarCounts, n_lex \in 0..1, n_near \in NearCounts,
          snap_dim \in Dims, kind \in IndexKinds, snapshot \in BOOLEAN,
          wide \in BOOLEAN, opposite \in BOOLEAN :
          /\ n_lex <= n_far
          /\ wide => (n_far = 0 /\ n_near = 0)
          /\ opposite => (~wide /\ n_far > 0 /\ n_near > 0)
          /\ vectors_json = IF ~snapshot THEN NoFile
                            ELSE IF opposite
                            THEN FileOf(WithOpposite(RowsOf(wide, n_far, n_lex, n_near,
                                                            snap_dim), snap_dim))
                            ELSE FileOf(RowsOf(wide, n_far, n_lex, n_near, snap_dim))
          /\ LET idx_dim == IF kind = "other_dim" THEN EmbedDim + 1 ELSE EmbedDim
                 plain == RowsOf(wide, n_far, n_lex, n_near, idx_dim)
                 rows == IF opposite THEN WithOpposite(plain, idx_dim) ELSE plain
                 built == rows # <<>> /\ snapshot
             IN  /\ latest_faiss = IF built /\ kind # "no_faiss"
                                   THEN FileOf(VectorsOf(rows)) ELSE NoFile
                 /\ latest_metadata = IF built /\ kind # "no_metadata"
                                      THEN FileOf(WithoutVector(rows)) ELSE NoFile
                 /\ index_fault = IF built /\ kind \in {"corrupt", "bad_metadata"}
                                  THEN kind ELSE "none"

QueryStart ==
    /\ QueryEnv
    /\ query = <<>> /\ q_vec = <<>> /\ pc = "Idle"
    /\ retrieved = <<>> /\ q_trace = NoTrace /\ response = NoResponse

Query ==
    /\ \E q \in Queries : StartQuery(q)
    /\ UNCHANGED <<index_fault, chunkVars, fpVars, sysVars, ixVars, poolVars, rankVars, topoVars, cacheVars, sevVars, extVars, ingVars>>
Embed ==
    /\ \E ok \in BOOLEAN : EmbedQuery(ok, Unit(EmbedDim, 1))
    /\ UNCHANGED <<index_fault, chunkVars, fpVars, sysVars, ixVars, poolVars, rankVars, topoVars, cacheVars, sevVars, extVars, ingVars>>
Search ==
    /\ IndexSearch
    /\ UNCHANGED <<index_fault, chunkVars, fpVars, sysVars, ixVars, poolVars, rankVars, topoVars, cacheVars, sevVars, extVars, ingVars>>
Fallback ==
    /\ FallbackScan
    /\ UNCHANGED <<index_fault, chunkVars, fpVars, sysVars, ixVars, poolVars, rankVars, topoVars, cacheVars, sevVars, extVars, ingVars>>
Answer ==
    /\ Respond
    /\ UNCHANGED <<index_fault, chunkVars, fpVars, sysVars, ixVars, poolVars, rankVars, topoVars, cacheVars, sevVars, extVars, ingVars>>

(***************************************************************************)
(* SpecIndex: one FAISSIndex builds corpora and saves them to the 'latest' *)
(* files while another loads the files and searches                        *)
(***************************************************************************)
MaxVecs == 2
MaxBuilds == 2
IndexTypes == {"Flat", "IVFFlat"}

sysRest == <<src_logs, chunk_files, cache_file, vectors_json, ingest_result,
             vec_call, vec_result>>

\* The n chunks of corpus b, their vectors and their metadata rows
ChunkIds(b, n) == [k \in 1..n |-> <<b, k>>]
VectorsFor(b, n) == [k \in 1..n |-> <<"vec", <<b, k>>>>]
MetadataFor(b, n) == [k \in 1..n |-> [path |-> <<b, k>>]]

NoResult == [op |-> "none", raised |-> "none", results |-> <<>>,
             before |-> FAISSIndex(EmbedDim, "IVFFlat", 1, 1)]
Result(op, raised, results, before) ==
    [op |-> op, raised |-> raised, results |-> results, before |-> before]

IndexIdle ==
    /\ w_index = FAISSIndex(EmbedDim, "IVFFlat", 1, 1) /\ w_pc = "off"
    /\ r_index = FAISSIndex(EmbedDim, "IVFFlat", 1, 1) /\ r_pc = "off"
    /\ r_result = NoResult /\ builds = 0

IndexStart ==
    /\ w_index = FAISSIndex(EmbedDim, "IVFFlat", 1, 1) /\ w_pc = "idle"
    /\ r_index = FAISSIndex(EmbedDim, "IVFFlat", 1, 1) /\ r_pc = "idle"
    /\ r_result = NoResult /\ builds = 0
    /\ src_logs = {} /\ chunk_files = EmptyMap /\ cache_file = EmptyMap
    /\ vectors_json = NoFile /\ latest_faiss = NoFile /\ latest_metadata = NoFile
    /\ ingest_result = [status |-> "none", files |-> 0, chunks |-> 0,
                        chunk_size |-> 1, overlap |-> 0]
    /\ vec_call = NoCall
    /\ vec_result = VecResult("none", 0, 0, 0)

\* A new FAISSIndex builds the next corpus: n vectors with m metadata rows.
BuildIndex ==
    /\ w_pc = "idle" /\ builds < MaxBuilds
    /\ \E n \in 0..MaxVecs, m \in 0..MaxVecs, index_type \in IndexTypes,
          nlist \in 1..MaxVecs :
          \E out \in {build(FAISSIndex(EmbedDim, index_type, nlist, 1), EmbedDim,
                            VectorsFor(builds + 1, n), MetadataFor(builds + 1, m))} :
             /\ w_index' = out.self
             /\ w_pc' = IF out.raised = "none" THEN "save_faiss" ELSE "idle"
    /\ builds' = builds + 1
    /\ UNCHANGED <<r_index, r_pc, r_result, latest_faiss, latest_metadata,
                   sysRest, chunkVars, fpVars, qVars, poolVars, rankVars, topoVars, cacheVars, sevVars, extVars, ingVars>>

\* FAISSIndex.save, first file: faiss.write_index
SaveFaiss ==
    /\ w_pc = "save_faiss"
    /\ latest_faiss' = FaissFile(w_index)
    /\ w_pc' = "save_metadata"
    /\ UNCHANGED <<w_index, builds, r_index, r_pc, r_result, latest_metadata,
                   sysRest, chunkVars, fpVars, qVars, poolVars, rankVars, topoVars, cacheVars, sevVars, extVars, ingVars>>

\* FAISSIndex.save, second file: pickle.dump
SaveMetadata ==
    /\ w_pc = "save_metadata"
    /\ latest_metadata' = MetadataFile(w_index)
    /\ w_pc' = "idle"
    /\ UNCHANGED <<w_index, builds, r_index, r_pc, r_result, latest_faiss,
                   sysRest, chunkVars, fpVars, qVars, poolVars, rankVars, topoVars, cacheVars, sevVars, extVars, ingVars>>

\* A file on disk becomes unreadable (truncated or overwritten)
Damage ==
    /\ \/ /\ latest_faiss.exists /\ latest_faiss.readable
          /\ latest_faiss' = [latest_faiss EXCEPT !.readable = FALSE]
          /\ UNCHANGED latest_metadata
       \/ /\ latest_metadata.exists /\ latest_metadata.readable
          /\ latest_metadata' = [latest_metadata EXCEPT !.readable = FALSE]
          /\ UNCHANGED latest_faiss
    /\ UNCHANGED <<ixVars, sysRest, chunkVars, fpVars, qVars, poolVars, rankVars, topoVars, cacheVars, sevVars, extVars, ingVars>>

\* FAISSIndex.load begins: the existence test
LoadBegin ==
    /\ r_pc = "idle"
    /\ IF load_check(latest_faiss, latest_metadata) # "none"
       THEN /\ r_result' = Result("load", load_check(latest_faiss, latest_metadata),
                                  <<>>, r_index)
            /\ r_pc' = "idle"
       ELSE /\ r_result' = Result("load", "pending", <<>>, r_index)
            /\ r_pc' = "read_index"
    /\ UNCHANGED <<r_index, w_index, w_pc, builds, latest_faiss, latest_metadata,
                   sysRest, chunkVars, fpVars, qVars, poolVars, rankVars, topoVars, cacheVars, sevVars, extVars, ingVars>>

\* FAISSIndex.load goes on: faiss.read_index
LoadIndex ==
    /\ r_pc = "read_index"
    /\ \E out \in {load_index(r_index, latest_faiss)} :
          /\ r_index' = out.self
          /\ IF out.raised # "none"
             THEN r_result' = [r_result EXCEPT !.raised = out.raised] /\ r_pc' = "idle"
             ELSE UNCHANGED r_result /\ r_pc' = "read_metadata"
    /\ UNCHANGED <<w_index, w_pc, builds, latest_faiss, latest_metadata,
                   sysRest, chunkVars, fpVars, qVars, poolVars, rankVars, topoVars, cacheVars, sevVars, extVars, ingVars>>

\* FAISSIndex.load ends: pickle.load and the assignments from it
LoadMetadata ==
    /\ r_pc = "read_metadata"
    /\ \E out \in {load_metadata(r_index, latest_metadata)} :
          /\ r_index' = out.self
          /\ r_result' = [r_result EXCEPT !.raised = out.raised]
    /\ r_pc' = "idle"
    /\ UNCHANGED <<w_index, w_pc, builds, latest_faiss, latest_metadata,
                   sysRest, chunkVars, fpVars, qVars, poolVars, rankVars, topoVars, cacheVars, sevVars, extVars, ingVars>>

\* FAISSIndex.search on the loading object
SearchIndex ==
    /\ r_pc = "idle"
    /\ \E k \in 1..MaxVecs : \E out \in {search(r_index, k)} :
          r_result' = Result("search", out.raised, out.results, r_index)
    /\ UNCHANGED <<r_index, r_pc, w_index, w_pc, builds, latest_faiss, latest_metadata,
                   sysRest, chunkVars, fpVars, qVars, poolVars, rankVars, topoVars, cacheVars, sevVars, extVars, ingVars>>

(***************************************************************************)
(* The embedding pool: server.py store_chunks_as_vectors (embed_batch on a *)
(* ThreadPoolExecutor), EmbeddingCache.set, EmbeddingCache.save            *)
(*                                                                         *)
(* The worker threads share one EmbeddingCache.  A thread can be switched  *)
(* out between any two steps of cache.set, so each step is an action.      *)
(***************************************************************************)
MAX_WORKERS == 5
MaxUnits == 3
PoolTexts == {<<"a">>, <<"b">>}

\* executor.submit(embed_batch, batch, batch_id) for a batch of one chunk
Task(t) == [text |-> t, at |-> "queued", seen |-> 0]
Running(fs) == {u \in DOMAIN fs : fs[u].at \in {"embed", "cache_store", "read_saves", "write_saves"}}
At(u, place) == pool_pc = "pool" /\ u \in DOMAIN futures /\ futures[u].at = place
Move(u, place) == [futures EXCEPT ![u].at = place]

PoolIdle ==
    /\ futures = <<>> /\ cache_on = FALSE /\ mem_cache = EmptyMap
    /\ total_saves = 0 /\ saves_before = 0 /\ set_calls = 0
    /\ pool_embedded = <<>> /\ pool_pc = "off"

\* chunks_to_embed is not empty, the cache was loaded from an empty file
PoolStart ==
    /\ \E n \in 1..MaxUnits : \E ts \in [1..n -> PoolTexts] :
          futures = [u \in 1..n |-> Task(ts[u])]
    /\ cache_on \in BOOLEAN
    /\ mem_cache = EmptyMap
    /\ total_saves \in 0..1 /\ saves_before = total_saves /\ set_calls = 0
    /\ pool_embedded = <<>> /\ pool_pc = "pool"

\* a worker thread of the pool takes the task
StartTask ==
    /\ \E u \in DOMAIN futures :
          /\ At(u, "queued")
          /\ Cardinality(Running(futures)) < MAX_WORKERS
          /\ futures' = Move(u, "embed")
    /\ UNCHANGED <<cache_on, mem_cache, total_saves, saves_before, set_calls,
                   pool_embedded, pool_pc, sysVars, chunkVars, fpVars, qVars, ixVars, rankVars, topoVars, cacheVars, sevVars, extVars, ingVars>>

\* embed_text returned; chunk["vector"] is set; cache.set is called if cache
EmbedDone ==
    /\ \E u \in DOMAIN futures :
          /\ At(u, "embed")
          /\ futures' = Move(u, IF cache_on THEN "cache_store" ELSE "returned")
    /\ UNCHANGED <<cache_on, mem_cache, total_saves, saves_before, set_calls,
                   pool_embedded, pool_pc, sysVars, chunkVars, fpVars, qVars, ixVars, rankVars, topoVars, cacheVars, sevVars, extVars, ingVars>>

\* embed_text raised: embed_batch returns (batch_id, [], str(e))
EmbedRaised ==
    /\ \E u \in DOMAIN futures :
          /\ At(u, "embed")
          /\ futures' = Move(u, "returned_error")
    /\ UNCHANGED <<cache_on, mem_cache, total_saves, saves_before, set_calls,
                   pool_embedded, pool_pc, sysVars, chunkVars, fpVars, qVars, ixVars, rankVars, topoVars, cacheVars, sevVars, extVars, ingVars>>

\* cache.set: self.cache[cache_key] = embedding
CacheStore ==
    /\ \E u \in DOMAIN futures :
          /\ At(u, "cache_store")
          /\ mem_cache' =
                [k \in DOMAIN mem_cache \cup {get_hash(futures[u].text)} |->
                    IF k = get_hash(futures[u].text) THEN embed_text(futures[u].text)
                    ELSE mem_cache[k]]
          /\ futures' = Move(u, "read_saves")
    /\ UNCHANGED <<cache_on, total_saves, saves_before, set_calls,
                   pool_embedded, pool_pc, sysVars, chunkVars, fpVars, qVars, ixVars, rankVars, topoVars, cacheVars, sevVars, extVars, ingVars>>

\* cache.set: self.stats.get("total_saves", 0)
ReadSaves ==
    /\ \E u \in DOMAIN futures :
          /\ At(u, "read_saves")
          /\ futures' = [futures EXCEPT ![u].at = "write_saves", ![u].seen = total_saves]
    /\ UNCHANGED <<cache_on, mem_cache, total_saves, saves_before, set_calls,
                   pool_embedded, pool_pc, sysVars, chunkVars, fpVars, qVars, ixVars, rankVars, topoVars, cacheVars, sevVars, extVars, ingVars>>

\* cache.set: self.stats["total_saves"] = <the value read> + 1, and return
WriteSaves ==
    /\ \E u \in DOMAIN futures :
          /\ At(u, "write_saves")
          /\ total_saves' = futures[u].seen + 1
          /\ set_calls' = set_calls + 1
          /\ futures' = Move(u, "returned")
    /\ UNCHANGED <<cache_on, mem_cache, saves_before,
                   pool_embedded, pool_pc, sysVars, chunkVars, fpVars, qVars, ixVars, rankVars, topoVars, cacheVars, sevVars, extVars, ingVars>>

\* as_completed hands a finished future to the main thread
Collect ==
    /\ \E u \in DOMAIN futures :
          /\ \/ /\ At(u, "returned")
                /\ pool_embedded' = Append(pool_embedded,
                                       [text |-> futures[u].text,
                                        vector |-> embed_text(futures[u].text)])
                /\ futures' = Move(u, "collected")
             \/ /\ At(u, "returned_error")
                /\ UNCHANGED pool_embedded
                /\ futures' = Move(u, "collected_error")
    /\ UNCHANGED <<cache_on, mem_cache, total_saves, saves_before, set_calls,
                   pool_pc, sysVars, chunkVars, fpVars, qVars, ixVars, rankVars, topoVars, cacheVars, sevVars, extVars, ingVars>>

\* the executor has shut down; if cache: cache.save()
PoolSave ==
    /\ pool_pc = "pool"
    /\ \A u \in DOMAIN futures : futures[u].at \in {"collected", "collected_error"}
    /\ pool_pc' = "saved"
    /\ cache_file' = IF cache_on THEN mem_cache ELSE cache_file
    /\ UNCHANGED <<futures, cache_on, mem_cache, total_saves, saves_before, set_calls,
                   pool_embedded, src_logs, chunk_files, vectors_json, latest_faiss,
                   latest_metadata, ingest_result, vec_call, vec_result,
                   chunkVars, fpVars, qVars, ixVars, rankVars, topoVars, cacheVars, sevVars, extVars, ingVars>>

(***************************************************************************)
(* SpecRank: ranking and selection over bounded sets of clusters           *)
(***************************************************************************)
MaxClusters == 9
W_FatalError == <<"F","a","t","a","l","E","r","r","o","r">>
W_timeout == <<"t","i","m","e","o","u","t">>
Event(message, excerpt_len) == [message |-> message, excerpt_len |-> excerpt_len, path |-> W_path]
Cluster(error_type, ev, freq) ==
    [error_type |-> error_type, events |-> [k \in 1..freq |-> ev], paths |-> <<W_path>>]
\* a fatal error seen once, a timeout seen three times, both with a full
\* excerpt, and a short generic error seen twice whose message names a timeout
ClusterKinds ==
    << Cluster(W_FatalError, Event(T_x, ExcerptLimit), 1),
       Cluster(W_GenericError, Event(W_timeout, ExcerptLimit), 3),
       Cluster(W_GenericError, Event(W_timeout \o T_x, 100), 2) >>
\* a clusters of the first kind, b of the second and c of the third, in
\* this order or in the opposite one
Arranged(a, b, c, backwards) ==
    LET forth == [k \in 1..(a + b + c) |->
                    ClusterKinds[IF k <= a THEN 1 ELSE IF k <= a + b THEN 2 ELSE 3]]
    IN  IF backwards THEN [k \in DOMAIN forth |-> forth[Len(forth) + 1 - k]] ELSE forth

RankIdle ==
    /\ clusters = <<>> /\ is_broad = FALSE /\ cluster_list = <<>>
    /\ selected = <<>> /\ rank_pc = "off"

\* the events of the retrieved chunks have been clustered
RankStart ==
    /\ \E a, b, c \in 0..MaxClusters : \E backwards \in BOOLEAN :
          /\ a + b + c \in 1..MaxClusters
          /\ clusters = Arranged(a, b, c, backwards)
    /\ is_broad \in BOOLEAN
    /\ cluster_list = <<>> /\ selected = <<>> /\ rank_pc = "rank"

\* the fingerprint of a cluster is its place in the dict
RankClusters ==
    /\ rank_pc = "rank"
    /\ cluster_list' = RankClustersDesc([k \in DOMAIN clusters |-> Ranked(k, clusters[k])])
    /\ rank_pc' = "select"
    /\ UNCHANGED <<clusters, is_broad, selected, chunkVars, fpVars, sysVars, qVars,
                   ixVars, poolVars, topoVars, cacheVars, sevVars, extVars, ingVars>>

SelectClusters ==
    /\ rank_pc = "select"
    /\ selected' = SelectFrom(cluster_list, 1, <<>>, 0, Budget(is_broad))
    /\ rank_pc' = "done"
    /\ UNCHANGED <<clusters, is_broad, cluster_list, chunkVars, fpVars, sysVars, qVars,
                   ixVars, poolVars, topoVars, cacheVars, sevVars, extVars, ingVars>>

(***************************************************************************)
(* SpecTopology: create_faiss_index_from_vectors on corpora of bounded     *)
(* sizes around the limits and on the thousands                            *)
(***************************************************************************)
SizeWindow == 5
MaxThousands == 60
ConfiguredTypes == KnownTypes \cup {"other"}
Sizes ==
    {k * 1000 : k \in 0..MaxThousands}
        \cup UNION {{b - d, b + d} : b \in {SmallLimit, MediumLimit, 50000}, d \in 0..SizeWindow}
NoTopology == [raised |-> "none", index_type |-> "None", nlist |-> 0, nprobe |-> 0,
               kind |-> "NotRun"]

TopologyIdle == n_vectors = 0 /\ configured_type = "IVFFlat" /\ topology = NoTopology
TopologyStart ==
    /\ n_vectors \in Sizes /\ configured_type \in ConfiguredTypes
    /\ topology = NoTopology

CreateIndex ==
    /\ topology = NoTopology
    /\ topology' = create_faiss_index_from_vectors(n_vectors, configured_type, EmbedDim)
    /\ UNCHANGED <<n_vectors, configured_type, chunkVars, fpVars, sysVars, qVars, ixVars,
                   poolVars, rankVars, cacheVars, sevVars, extVars, ingVars>>

(***************************************************************************)
(* SpecCache: set and get on one EmbeddingCache (server.py), over texts    *)
(* shorter and longer than the hashed prefix                               *)
(***************************************************************************)
MaxOps == 3
\* EmbeddingCache.get(text): the entry of the key, counted as a hit, or None
cache_get(cache, stats, t) ==
    IF get_hash(t) \in DOMAIN cache
    THEN [value |-> cache[get_hash(t)],
          stats |-> [stats EXCEPT !.total_hits = stats.total_hits + 1]]
    ELSE [value |-> <<"None">>,
          stats |-> [stats EXCEPT !.total_misses = stats.total_misses + 1]]
\* EmbeddingCache.set(text, embedding) by one caller
cache_set(cache, stats, t, embedding) ==
    [cache |-> [k \in DOMAIN cache \cup {get_hash(t)} |->
                   IF k = get_hash(t) THEN embedding ELSE cache[k]],
     stats |-> [stats EXCEPT !.total_saves = stats.total_saves + 1]]

\* HashPrefix times "a"
LongA == [i \in 1..HashPrefix |-> "a"]
\* "a", " a", "b", then three texts longer than the prefix: two that differ
\* behind it and one that begins with a blank
CacheTexts ==
    << <<"a">>, <<SP, "a">>, <<"b">>,
       LongA \o <<"b">>, LongA \o <<"c">>, <<SP>> \o LongA >>
CacheKeys == [t \in DOMAIN CacheTexts |-> get_hash(CacheTexts[t])]
CacheValues == {<<"vec", 1>>, <<"vec", 2>>}
NoStats == [total_hits |-> 0, total_misses |-> 0, total_saves |-> 0]

CacheIdle ==
    /\ ecache = EmptyMap /\ ecache_stats = NoStats /\ ecache_ops = <<>>
    /\ ecache_got = <<"off">>
\* EmbeddingCache() without files on disk
CacheStart ==
    /\ ecache = EmptyMap /\ ecache_stats = NoStats /\ ecache_ops = <<>>
    /\ ecache_got = <<"None">>

CacheSet ==
    /\ ecache_got # <<"off">> /\ Len(ecache_ops) < MaxOps
    /\ \E t \in DOMAIN CacheTexts, v \in CacheValues :
          \E out \in {cache_set(ecache, ecache_stats, CacheTexts[t], v)} :
             /\ ecache' = out.cache /\ ecache_stats' = out.stats
             /\ ecache_ops' = Append(ecache_ops, [op |-> "set", text |-> t, value |-> v])
    /\ UNCHANGED <<ecache_got, chunkVars, fpVars, sysVars, qVars, ixVars, poolVars,
                   rankVars, topoVars, sevVars, extVars, ingVars>>

CacheGet ==
    /\ ecache_got # <<"off">> /\ Len(ecache_ops) < MaxOps
    /\ \E t \in DOMAIN CacheTexts :
          \E out \in {cache_get(ecache, ecache_stats, CacheTexts[t])} :
             /\ ecache_got' = out.value /\ ecache_stats' = out.stats
             /\ ecache_ops' = Append(ecache_ops, [op |-> "get", text |-> t, value |-> out.value])
    /\ UNCHANGED <<ecache, chunkVars, fpVars, sysVars, qVars, ixVars, poolVars,
                   rankVars, topoVars, sevVars, extVars, ingVars>>

(***************************************************************************)
(* SpecSeverity: universal_severity_rank (utils/error_extraction.py) on    *)
(* error types and messages in mixed case, with keywords of several levels *)
(* in one string and a keyword that spans the blank between the two        *)
(***************************************************************************)
SeverityTypes ==
    { <<"F","a","t","a","l","E","r","r","o","r">>,
      <<"W","a","r","n","i","n","g">>,
      <<"G","e","n","e","r","i","c","E","r","r","o","r">>,
      <<"O","u","t">>,
      <<"T","i","m","e","o","u","t","E","x","c","e","p","t","i","o","n">>,
      <<"I","n","f","o">>,
      <<"P","A","N","I","C">>,
      <<"N","o","t","i","c","e">>,
      <<"D","e","a","d","l","o","c","k","D","e","t","e","c","t","e","d">>,
      <<"A","c","c","e","s","s","E","r","r","o","r">> }
SeverityMessages ==
    { <<"x">>,
      <<"o","f"," ","m","e","m","o","r","y">>,
      <<"d","i","s","k"," ","C","R","A","S","H">>,
      <<"c","o","n","n","e","c","t","i","o","n"," ","t","i","m","e","o","u","t">>,
      <<"l","o","w"," ","d","i","s","k"," ","w","a","r","n">>,
      <<"a","s","s","e","r","t"," ","f","a","i","l","e","d">>,
      <<"N","u","l","l"," ","P","o","i","n","t","e","r">>,
      <<>>,
      <<"d","a","t","a"," ","l","o","s","s">>,
      <<"a","c","c","e","s","s"," ","d","e","n","i","e","d">>,
      <<"f","a","t","a","l">>,
      <<"o","k">> }

SeverityIdle == sev_type = <<>> /\ sev_msg = <<>> /\ sev_out = -2
SeverityStart ==
    /\ sev_type \in SeverityTypes /\ sev_msg \in SeverityMessages
    /\ sev_out = -1

RankSeverity ==
    /\ sev_out = -1
    /\ sev_out' = universal_severity_rank(sev_type, sev_msg)
    /\ UNCHANGED <<sev_type, sev_msg, chunkVars, fpVars, sysVars, qVars, ixVars, poolVars,
                   rankVars, topoVars, cacheVars, extVars, ingVars>>

(***************************************************************************)
(* SpecExtract: the chunks of one source log are retrieved, their error    *)
(* events are extracted chunk by chunk and clustered by fingerprint        *)
(* (server.py query_SFlogs, lines 666-744)                                 *)
(***************************************************************************)
MaxStanzas == 2
MaxRepeat == 3
ExChunkSize == 64
ExOverlap == 32
DEFAULT_CHUNK_SIZE == 4096
DEFAULT_OVERLAP == 1024

\* A source log is a sequence of stanzas.  Every stanza but "info" is one
\* occurrence of an error: its error lines, for some kinds followed by a
\* line of context.  The k-th stanza carries the line number k.
StanzaKinds == {"npe", "npe_ctx", "java", "sys", "py", "web", "long", "info"}
DigitOf(k) == <<"1","2","3","4","5","6","7","8","9">>[k]
L_npe(k) == <<"N","u","l","l","P","o","i","n","t","e","r","E","x","c","e","p","t","i","o","n",":"," ","l","i","n","e"," ">> \o <<DigitOf(k)>>
L_frame == <<" "," ","a","t"," ","a",".","b","(","c",")">>
L_ok == <<"o","k">>
L_sys == <<"S","y","s","t","e","m",".","T","h","r","o","w","a","b","l","e">>
L_pyframe == <<" "," ","F","i","l","e"," ","a",".","p","y">>
L_pyerror == <<"V","a","l","u","e","E","r","r","o","r",":"," ","b","a","d">>
L_web == <<"a"," ","b"," ","c"," ","[","e","r","r","o","r","]"," ","d",":"," ","x">>
L_err == <<"E","R","R","O","R"," ","x">>
L_long == [i \in 1..BlockPrefix |-> "x"]
ErrorLines(kind, k) ==
    CASE kind \in {"npe", "npe_ctx"} -> <<L_npe(k)>>
      [] kind = "java" -> <<L_npe(k), L_frame>>
      [] kind = "sys" -> <<L_sys, L_frame>>
      [] kind = "py" -> <<W_Traceback, L_pyframe, L_pyerror>>
      [] kind = "web" -> <<L_web>>
      [] kind = "long" -> <<L_err, L_long>>
      [] kind = "info" -> <<>>
StanzaLines(kind, k) ==
    ErrorLines(kind, k)
        \o (IF kind \in {"npe_ctx", "info"} THEN <<L_ok>>
            ELSE IF kind = "long" THEN <<Append(L_ok, DigitOf(k))>> ELSE <<>>)
LogText(stanzas, blank) ==
    JoinWith(IF blank THEN <<NL, NL>> ELSE <<NL>>,
             [k \in DOMAIN stanzas |-> JoinWith(<<NL>>, StanzaLines(stanzas[k], k))])
\* Up to MaxStanzas stanzas of short lines, MaxRepeat occurrences of one
\* error, and one or two occurrences of the error with the long line
Logs ==
    (UNION {[1..n -> StanzaKinds \ {"long"}] : n \in 1..MaxStanzas})
        \cup {[k \in 1..MaxRepeat |-> kind] : kind \in StanzaKinds \ {"info", "long"}}
        \cup {<<"long">>, <<"long", "long">>}

\* clusters[fp]["events"] in the order the fingerprints were first seen,
\* with freq = len(evs) and exemplar = evs[0]
RECURSIVE ClustersOf(_)
ClustersOf(evs) ==
    IF evs = <<>> THEN <<>>
    ELSE LET before == ClustersOf(SubSeq(evs, 1, Len(evs) - 1))
             ev == evs[Len(evs)]
             at == {k \in DOMAIN before : before[k].fingerprint = ev.fingerprint}
         IN  IF at = {}
             THEN Append(before, [fingerprint |-> ev.fingerprint,
                                  error_type |-> ev.error_type,
                                  events |-> <<ev>>, freq |-> 1, exemplar |-> ev])
             ELSE [k \in DOMAIN before |->
                     IF k \in at
                     THEN [before[k] EXCEPT !.events = Append(@, ev), !.freq = @ + 1]
                     ELSE before[k]]

NoLog == [stanzas |-> <<>>, blank |-> FALSE, text |-> <<>>]
ExtractIdle ==
    /\ ex_log = NoLog /\ ex_chunks = <<>> /\ ex_done = 0 /\ ex_candidates = <<>>
    /\ ex_events = <<>> /\ all_events = <<>> /\ ex_clusters = <<>> /\ ex_pc = "Off"

\* The log was ingested with the default chunk size or (logs of short lines)
\* with a small one, and the query retrieved all its chunks.
ExtractStart ==
    /\ \E stanzas \in Logs, blank \in BOOLEAN, small \in BOOLEAN :
          \E t \in {LogText(stanzas, blank)} :
             /\ small => \A k \in DOMAIN stanzas : stanzas[k] # "long"
             /\ ex_log = [stanzas |-> stanzas, blank |-> blank, text |-> t]
             /\ ex_chunks = IF small
                            THEN chunks_chars_mem(t, ExChunkSize, ExOverlap).chunks
                            ELSE chunks_chars_mem(t, DEFAULT_CHUNK_SIZE, DEFAULT_OVERLAP).chunks
    /\ ex_done = 0 /\ ex_candidates = <<>> /\ ex_events = <<>>
    /\ all_events = <<>> /\ ex_clusters = <<>> /\ ex_pc = "extract"

\* One pass of 'for r in retrieved': the events of r["chunk"] are extracted
\* and appended to all_events.
ExtractChunk ==
    /\ ex_pc = "extract" /\ ex_done < Len(ex_chunks)
    /\ \E r \in {ex_done + 1} :
       \E events \in {extract_error_events_universal(ex_chunks[r], r)} :
          /\ ex_candidates' = CandidatesIn(ExtractorOrder, ex_chunks[r])
          /\ ex_events' = events
          /\ all_events' = all_events \o events
          /\ ex_done' = r
    /\ UNCHANGED <<ex_log, ex_chunks, ex_clusters, ex_pc>>
    /\ UNCHANGED <<chunkVars, fpVars, sysVars, qVars, ixVars, poolVars, rankVars, topoVars, cacheVars, sevVars, ingVars>>

\* After the loop: without events the query answers with the chunks, with
\* events they are clustered.
ClusterEvents ==
    /\ ex_pc = "extract" /\ ex_done = Len(ex_chunks)
    /\ ex_clusters' = ClustersOf(all_events)
    /\ ex_pc' = IF all_events = <<>> THEN "no_errors" ELSE "clustered"
    /\ UNCHANGED <<ex_log, ex_chunks, ex_done, ex_candidates, ex_events, all_events>>
    /\ UNCHANGED <<chunkVars, fpVars, sysVars, qVars, ixVars, poolVars, rankVars, topoVars, cacheVars, sevVars, ingVars>>

(***************************************************************************)
(* SpecIngest: fetch_local_logs over a folder of named files, with the     *)
(* input folder given or defaulting to LOG_FOLDER (server.py 306-343,      *)
(* utils/chunking_utils.py iter_local_logs, utils/file_utils.py            *)
(* save_chunk_txt)                                                         *)
(***************************************************************************)
MaxRuns == 2
MaxIngestSize == 2
MaxFileLen == 2

LOG_EXTENSIONS == {".log", ".txt", ".out", ".err"}
\* A file of a folder: app.log is [base "app", idx <<>>, ext ".log"], and
\* app__chunk0001.txt is [base "app", idx <<1>>, ext ".txt"].
SourceNames ==
    { [base |-> "app", idx |-> <<>>, ext |-> ".log"],
      [base |-> "app", idx |-> <<>>, ext |-> ".out"],
      [base |-> "app", idx |-> <<>>, ext |-> ".err"],
      [base |-> "notes", idx |-> <<>>, ext |-> ".md"] }
FileTexts == {t \in SeqsUpTo({"a", "b"}, MaxFileLen) : t # <<>> /\ t[1] = "a"}

\* save_chunk_txt: the extension of the source is dropped, the chunk file
\* is <stem>__chunk<idx>.txt
save_chunk_txt(n, i) == [base |-> n.base, idx |-> Append(n.idx, i), ext |-> ".txt"]

\* iter_local_logs: the files whose name ends in one of LOG_EXTENSIONS
iter_local_logs(folder) == {n \in DOMAIN folder : n.ext \in LOG_EXTENSIONS}

\* The order in which os.walk lists the files of a folder: some fixed order
\* of the names, here by extension, base and chunk numbers, or its reverse.
ExtNo(e) == CASE e = ".err" -> 1 [] e = ".log" -> 2 [] e = ".md" -> 3
              [] e = ".out" -> 4 [] e = ".txt" -> 5
RECURSIVE IdxNo(_)
IdxNo(idx) == IF idx = <<>> THEN 0 ELSE 10 * IdxNo(SubSeq(idx, 1, Len(idx) - 1)) + idx[Len(idx)]
NameNo(n) == 1000 * ExtNo(n.ext) + 10 * IdxNo(n.idx) + (IF n.base = "app" THEN 0 ELSE 1)
WalkOrder(names, reverse) ==
    [k \in 1..Cardinality(names) |->
        CHOOSE n \in names :
            Cardinality({m \in names : IF reverse THEN NameNo(m) > NameNo(n)
                                                  ELSE NameNo(m) < NameNo(n)}) = k - 1]

\* The loop body of fetch_local_logs for one listed file: read it, chunk
\* it, write its chunks; a ValueError of the chunker is logged and the file
\* is skipped.
IngestOne(st, n, body, chunk_size, ov) ==
    LET r == chunks_chars_mem(body, chunk_size, ov)
        paths == [i \in DOMAIN r.chunks |-> save_chunk_txt(n, i)]
        new == {paths[i] : i \in DOMAIN paths}
    IN  IF r.status # "ok" THEN st
        ELSE [out |-> [p \in DOMAIN st.out \cup new |->
                          IF p \in new
                          THEN r.chunks[CHOOSE i \in DOMAIN paths : paths[i] = p]
                          ELSE st.out[p]],
              files |-> st.files + 1,
              chunks |-> st.chunks + Len(r.chunks),
              saved |-> st.saved \o [i \in DOMAIN paths |->
                                        [source |-> n, idx |-> i, path |-> paths[i]]]]

\* the loop over the listed files; with the input folder being LOG_FOLDER
\* a file is read from the folder as it is when its turn comes
RECURSIVE IngestAll(_, _, _, _, _, _)
IngestAll(st, todo, src, same, chunk_size, ov) ==
    IF todo = <<>> THEN st
    ELSE LET n == Head(todo)
             body == IF same THEN st.out[n] ELSE src[n]
         IN  IngestAll(IngestOne(st, n, body, chunk_size, ov), Tail(todo),
                       src, same, chunk_size, ov)

NoFiles == [n \in {} |-> <<>>]
IngestIdle ==
    /\ src_folder = NoFiles /\ log_folder = NoFiles /\ same_folder = FALSE
    /\ walk_reverse = FALSE /\ ing_runs = <<>>

\* Some log files in a source folder and an empty LOG_FOLDER, or the same
\* files in LOG_FOLDER itself (the default input folder).
IngestStart ==
    /\ \E names \in SUBSET SourceNames :
          /\ \E n \in names : n.ext \in LOG_EXTENSIONS
          /\ \E texts \in [names -> FileTexts] :
                /\ same_folder \in BOOLEAN
                /\ src_folder = IF same_folder THEN NoFiles ELSE texts
                /\ log_folder = IF same_folder THEN texts ELSE NoFiles
    /\ walk_reverse \in BOOLEAN
    /\ ing_runs = <<>>

\* fetch_local_logs(input_folder, chunk_size, overlap)
FetchLocalLogs ==
    /\ Len(ing_runs) < MaxRuns
    /\ \E chunk_size \in 1..MaxIngestSize, ov \in 0..(MaxIngestSize - 1) :
       \E src \in {IF same_folder THEN log_folder ELSE src_folder} :
       \E st \in {IngestAll([out |-> log_folder, files |-> 0, chunks |-> 0, saved |-> <<>>],
                            WalkOrder(iter_local_logs(src), walk_reverse),
                            src, same_folder, chunk_size, ov)} :
          /\ log_folder' = st.out
          /\ ing_runs' = Append(ing_runs,
                                [chunk_size |-> chunk_size, overlap |-> ov,
                                 files |-> st.files, chunks |-> st.chunks,
                                 saved |-> st.saved, after |-> st.out])
    /\ UNCHANGED <<src_folder, same_folder, walk_reverse>>
    /\ UNCHANGED <<chunkVars, fpVars, sysVars, qVars, ixVars, poolVars, rankVars, topoVars, cacheVars, sevVars, extVars>>

(***************************************************************************)
(* Specifications                                                          *)
(***************************************************************************)
ChunkNext ==
    \/ CallCharsMem
    \/ CallWordsMem
    \/ CallLinesMem
    \/ CallStreamChars
    \/ CallStreamWords
    \/ CallStreamLines

ChunkInit == ChunkStart /\ FpIdle /\ SysIdle /\ QueryIdle /\ IndexIdle /\ PoolIdle /\ RankIdle /\ TopologyIdle /\ CacheIdle /\ SeverityIdle /\ ExtractIdle /\ IngestIdle
SpecChunk == ChunkInit /\ [][ChunkNext]_vars

FpInit == FpStart /\ ChunkIdle /\ SysIdle /\ QueryIdle /\ IndexIdle /\ PoolIdle /\ RankIdle /\ TopologyIdle /\ CacheIdle /\ SeverityIdle /\ ExtractIdle /\ IngestIdle
FpNext == ExtractEvents
SpecFp == FpInit /\ [][FpNext]_vars

Init == SysStart /\ ChunkIdle /\ FpIdle /\ QueryIdle /\ IndexIdle /\ PoolIdle /\ RankIdle /\ TopologyIdle /\ CacheIdle /\ SeverityIdle /\ ExtractIdle /\ IngestIdle
Next ==
    \/ Ingest
    \/ Vectorize
Spec == Init /\ [][Next]_vars

QueryInit == QueryStart /\ ChunkIdle /\ FpIdle /\ IndexIdle /\ PoolIdle /\ RankIdle /\ TopologyIdle /\ CacheIdle /\ SeverityIdle /\ ExtractIdle /\ IngestIdle
QueryNext ==
    \/ Query
    \/ Embed
    \/ Search
    \/ Fallback
    \/ Answer
SpecQuery == QueryInit /\ [][QueryNext]_vars
\* A query that has started runs to its end: every step of the handler is
\* taken once it is enabled.  Whether another query arrives is up to the client.
SpecQueryFair ==
    /\ SpecQuery
    /\ WF_vars(Embed) /\ WF_vars(Search) /\ WF_vars(Fallback) /\ WF_vars(Answer)

IndexInit == IndexStart /\ ChunkIdle /\ FpIdle /\ QueryIdle /\ PoolIdle /\ RankIdle /\ TopologyIdle /\ CacheIdle /\ SeverityIdle /\ ExtractIdle /\ IngestIdle
IndexNext ==
    \/ BuildIndex
    \/ SaveFaiss
    \/ SaveMetadata
    \/ Damage
    \/ LoadBegin
    \/ LoadIndex
    \/ LoadMetadata
    \/ SearchIndex
SpecIndex == IndexInit /\ [][IndexNext]_vars

PoolInit == PoolStart /\ ChunkIdle /\ FpIdle /\ SysIdle /\ QueryIdle /\ IndexIdle /\ RankIdle /\ TopologyIdle /\ CacheIdle /\ SeverityIdle /\ ExtractIdle /\ IngestIdle
PoolNext ==
    \/ StartTask
    \/ EmbedDone
    \/ EmbedRaised
    \/ CacheStore
    \/ ReadSaves
    \/ WriteSaves
    \/ Collect
    \/ PoolSave
SpecPool == PoolInit /\ [][PoolNext]_vars

RankInit ==
    /\ RankStart /\ ChunkIdle /\ FpIdle /\ SysIdle /\ QueryIdle /\ IndexIdle /\ PoolIdle
    /\ TopologyIdle /\ CacheIdle /\ SeverityIdle /\ ExtractIdle /\ IngestIdle
RankNext ==
    \/ RankClusters
    \/ SelectClusters
SpecRank == RankInit /\ [][RankNext]_vars

TopologyInit ==
    /\ TopologyStart /\ ChunkIdle /\ FpIdle /\ SysIdle /\ QueryIdle /\ IndexIdle /\ PoolIdle
    /\ RankIdle /\ CacheIdle /\ SeverityIdle /\ ExtractIdle /\ IngestIdle
TopologyNext == CreateIndex
SpecTopology == TopologyInit /\ [][TopologyNext]_vars

CacheInit ==
    /\ CacheStart /\ ChunkIdle /\ FpIdle /\ SysIdle /\ QueryIdle /\ IndexIdle /\ PoolIdle
    /\ RankIdle /\ TopologyIdle /\ SeverityIdle /\ ExtractIdle /\ IngestIdle
CacheNext ==
    \/ CacheSet
    \/ CacheGet
SpecCache == CacheInit /\ [][CacheNext]_vars

SeverityInit ==
    /\ SeverityStart /\ ChunkIdle /\ FpIdle /\ SysIdle /\ QueryIdle /\ IndexIdle /\ PoolIdle
    /\ RankIdle /\ TopologyIdle /\ CacheIdle /\ ExtractIdle /\ IngestIdle
SeverityNext == RankSeverity
SpecSeverity == SeverityInit /\ [][SeverityNext]_vars

ExtractInit == ExtractStart /\ ChunkIdle /\ FpIdle /\ SysIdle /\ QueryIdle /\ IndexIdle /\ PoolIdle /\ RankIdle /\ TopologyIdle /\ CacheIdle /\ SeverityIdle /\ IngestIdle
ExtractNext ==
    \/ ExtractChunk
    \/ ClusterEvents
SpecExtract == ExtractInit /\ [][ExtractNext]_vars

IngestInit ==
    /\ IngestStart /\ ChunkIdle /\ FpIdle /\ SysIdle /\ QueryIdle /\ IndexIdle /\ PoolIdle
    /\ RankIdle /\ TopologyIdle /\ CacheIdle /\ SeverityIdle /\ ExtractIdle
IngestNext == FetchLocalLogs
SpecIngest == IngestInit /\ [][IngestNext]_vars

(***************************************************************************)
(* Claims about the chunker (checked under SpecChunk)                      *)
(***************************************************************************)
ParamsValid == size > 0 /\ overlap >= 0 /\ overlap < size
BothRun == mem_out # NotRun /\ stream_out # NotRun

\* C2 (as claimed): for every text, every (size, overlap) and every read
\* buffer size, the streaming chunker of each unit yields exactly the chunk
\* sequence of the in-memory chunker of that unit.
C2_StreamEqualsMem == BothRun => stream_out = mem_out

\* C7 (as claimed): a chunker accepts exactly the pairs with
\* 0 < overlap < size and fails with InvalidParameters for every other pair,
\* overlap = 0 included.
C7_AcceptsOnlyPositiveOverlap ==
    /\ mem_out # NotRun =>
         (mem_out.status = "ok" <=> (0 < overlap /\ overlap < size))
    /\ stream_out # NotRun =>
         (stream_out.status = "ok" <=> (0 < overlap /\ overlap < size))

\* C7 (amended): every chunker accepts exactly the pairs with size > 0 and
\* 0 <= overlap < size (overlap = 0 is accepted) and fails with
\* InvalidParameters, returning no chunk, for every other pair.
C7_AcceptsExactlyValid ==
    /\ mem_out # NotRun =>
         IF ParamsValid THEN mem_out.status = "ok" ELSE mem_out = InvalidParameters
    /\ stream_out # NotRun =>
         IF ParamsValid THEN stream_out.status = "ok"
         ELSE stream_out = InvalidParameters

\* C7 witness: a chunker ran with overlap = 0 and returned several chunks.
C7_Witness ==
    /\ overlap = 0 /\ mem_out.status = "ok" /\ stream_out.status = "ok"
    /\ Len(mem_out.chunks) >= 2

\* The text rebuilt from the chunks: the first chunk, then every later chunk
\* without its first `overlap` characters.
Reconstruct(cs, ov) ==
    IF cs = <<>> THEN <<>>
    ELSE Head(cs) \o Flatten([k \in 1..(Len(cs) - 1) |-> Drop(cs[k + 1], ov)])

CharsMemDone == unit = "chars" /\ mem_out.status = "ok"

\* C8: for valid (size, overlap), the chunks of chunks_chars_mem with the
\* first `overlap` characters removed from each chunk but the first
\* concatenate to the original text, and each chunk after the first is longer
\* than `overlap`.
C8_Reconstructs ==
    CharsMemDone =>
        /\ Reconstruct(mem_out.chunks, overlap) = text
        /\ \A k \in 2..Len(mem_out.chunks) : Len(mem_out.chunks[k]) > overlap

\* C8 witness: three or more overlapping chunks were produced.
C8_Witness == CharsMemDone /\ overlap >= 1 /\ Len(mem_out.chunks) >= 3

CeilDiv(a, b) == (a + b - 1) \div b

StartsAtMultiplesOfStep ==
    \A k \in 1..Len(mem_out.chunks) :
        mem_out.chunks[k] =
            Slice(text, (k - 1) * (size - overlap), (k - 1) * (size - overlap) + size)

\* C9 (as claimed): character-mode chunking of a text of length n produces
\* exactly ceil(max(n - overlap, 0) / (size - overlap)) chunks, chunk k
\* starting at offset k * (size - overlap).
C9_CountAsClaimed ==
    CharsMemDone =>
        /\ Len(mem_out.chunks) = CeilDiv(Max(Len(text) - overlap, 0), size - overlap)
        /\ StartsAtMultiplesOfStep

\* C9 (amended): the count is 0 for the empty text, 1 for a text of length
\* 1..overlap, and ceil((n - overlap) / (size - overlap)) for n > overlap;
\* chunk k is the window of at most `size` characters at offset
\* k * (size - overlap).
C9_Count ==
    CharsMemDone =>
        /\ Len(mem_out.chunks) =
              IF Len(text) = 0 THEN 0
              ELSE IF Len(text) <= overlap THEN 1
              ELSE CeilDiv(Len(text) - overlap, size - overlap)
        /\ StartsAtMultiplesOfStep

\* C9 witness: a text longer than one window, cut with a real overlap and a
\* step larger than one, ending in a partial window.
C9_Witness ==
    /\ CharsMemDone /\ overlap >= 1 /\ size - overlap >= 2
    /\ Len(mem_out.chunks) >= 2
    /\ Len(mem_out.chunks[Len(mem_out.chunks)]) < size

(***************************************************************************)
(* Claims about the fingerprint (checked under SpecFp)                     *)
(***************************************************************************)
\* C4 (as claimed): two error blocks that differ only in the values of
\* embedded UUIDs, hexadecimal identifiers or decimal numerals (numerals of
\* different digit counts included) get the same fingerprint.
C4_SameFingerprint ==
    (events_a # <<>> /\ events_b # <<>>) =>
        events_a[1].fingerprint = events_b[1].fingerprint

(***************************************************************************)
(* Claims about ingest and vectorize (checked under Spec)                  *)
(***************************************************************************)
\* C1 (as claimed): every vectorize call that reports success has overwritten
\* the 'latest' index pair, so the latest index holds exactly the chunks of
\* the newest vector snapshot (same count, same chunk set), also when every
\* chunk came from the embedding cache.
C1_LatestIndexHoldsSnapshot ==
    vec_result.status \in {"success_all_cached", "complete"} =>
        /\ latest_faiss.exists /\ latest_metadata.exists
        /\ Len(latest_metadata.rows) = Len(vectors_json.rows)
        /\ Len(latest_faiss.rows) = Len(vectors_json.rows)
        /\ Range(latest_metadata.rows) = Range(WithoutVector(vectors_json.rows))

\* C5 (as claimed): vectorize(use_cache = true, clear_cache = true) does not
\* end in an error; it completes and reports cached = 0.
C5_ClearCacheCompletes ==
    (vec_call.use_cache /\ vec_call.clear_cache) =>
        /\ vec_result.status \in {"complete", "complete_index_failed", "no_chunks"}
        /\ vec_result.cached = 0

\* C6 (as claimed): an ingest whose chunk parameters violate the chunker
\* constraint never returns a success summary.
C6_InvalidParametersPropagate ==
    ingest_result.status = "ok" =>
        validate_chunker(ingest_result.chunk_size, ingest_result.overlap)

\* A store_chunks_as_vectors step that got as far as writing the snapshot
VectorizeStep ==
    /\ chunk_files' = chunk_files /\ ingest_result' = ingest_result
    /\ vec_result'.status \in {"complete", "complete_index_failed"}
CachedBefore ==
    {p \in DOMAIN chunk_files :
        /\ strip(chunk_files[p]) # <<>>
        /\ vec_call'.use_cache /\ get_hash(chunk_files[p]) \in DOMAIN cache_file}
SucceededNow == ToEmbed(vec_call'.use_cache, vec_call'.clear_cache) \ vec_call'.failed
SnapshotPaths(file) == {file.rows[k].path : k \in DOMAIN file.rows}
RowHasVector(row) ==
    IF row.path \in CachedBefore THEN row.vector = cache_file[get_hash(row.text)]
    ELSE row.vector = embed_text(row.text)
PartialRun == vec_result.status \in {"complete", "complete_index_failed"} /\ vec_call.failed # {}

\* C16 (as claimed): the failure of a chunk's embedding drops no sibling,
\* and the response states how many units failed.
C16_FailedCountReported == PartialRun => "failed" \in DOMAIN vec_result

\* C16 (amended): the snapshot holds exactly the cached chunks and the chunks
\* whose embedding succeeded, each once and with its vector; the response
\* states total, cached and newly embedded only, and the number of failed
\* units is the difference total - cached - newly_embedded.
C16_FailureIsolated ==
    [][VectorizeStep =>
        /\ SnapshotPaths(vectors_json') = CachedBefore \cup SucceededNow
        /\ Len(vectors_json'.rows) = Cardinality(CachedBefore \cup SucceededNow)
        /\ \A k \in DOMAIN vectors_json'.rows :
              /\ vectors_json'.rows[k].text = chunk_files[vectors_json'.rows[k].path]
              /\ RowHasVector(vectors_json'.rows[k])
        /\ vec_result'.cached = Cardinality(CachedBefore)
        /\ vec_result'.newly_embedded = Cardinality(SucceededNow)
        /\ vec_result'.total = vec_result'.cached + vec_result'.newly_embedded
                                  + Cardinality(vec_call'.failed)]_vars

\* one chunk failed and its sibling is in the snapshot
C16_Witness ==
    /\ PartialRun /\ vec_result.newly_embedded > 0
    /\ Len(vectors_json.rows) = vec_result.cached + vec_result.newly_embedded

\* Both summaries of a run that got past the embedding begin with
\* "Vectorization complete"
ReportsCompletion == vec_result.status \in {"complete", "complete_index_failed"}
IndexBuilt ==
    /\ latest_faiss.exists /\ latest_metadata.exists
    /\ latest_faiss.rows = VectorsOf(vectors_json.rows)

\* C17 (as claimed): store_chunks_as_vectors never reports completion when
\* building or saving the index failed; the index error reaches the caller.
C17_IndexErrorPropagates == ReportsCompletion => IndexBuilt

(***************************************************************************)
(* Claims about the query (checked under SpecQuery and SpecQueryFair)      *)
(***************************************************************************)
PathDone == q_trace.path \in {"index", "fallback"}
IndexFailed == q_trace.index_error # "none"
\* every snapshot row can be compared with the query vector
SnapshotFitsQuery ==
    \A j \in DOMAIN vectors_json.rows : SameShape(q_vec, vectors_json.rows[j].vector)

\* C3 (as claimed): on both retrieval paths the threshold is discarded if and
\* only if fewer than 10 items survived it and more than 10 candidates
\* existed before filtering.
C3_RelaxIffUnderflow ==
    PathDone =>
        (q_trace.relaxed <=>
            (q_trace.survivors < MinSurvivors /\ q_trace.candidates > MinSurvivors))

Candidates ==
    IF q_trace.path = "index"
    THEN ScoreResults(faiss_search(latest_faiss.rows, latest_metadata.rows, q_vec,
                                   TopK(IsBroad(query))),
                      WordSet(lower(query)), IsBroad(query))
    ELSE ScoreRows(vectors_json.rows, WordSet(lower(query)), IsBroad(query), q_vec)
ReturnedPaths == {retrieved[k].path : k \in DOMAIN retrieved}
Relaxed == PathDone /\ q_trace.relaxed /\ q_trace.candidates > MinSurvivors
RelaxedCount ==
    retrieved # <<>> /\ Len(retrieved) = Min(RelaxTopK, q_trace.candidates)
\* no candidate left out has a higher blended score than a returned one
TopByBlendedScore(cand, paths) ==
    \A i \in DOMAIN cand, j \in DOMAIN cand :
        (cand[i].path \in paths /\ cand[j].path \notin paths)
            => cand[i].score >= cand[j].score
\* no candidate left out has a higher similarity than a returned one
TopBySimilarity(cand, paths) ==
    \A i \in DOMAIN cand, j \in DOMAIN cand :
        (cand[i].path \in paths /\ cand[j].path \notin paths)
            => cand[i].semantic >= cand[j].semantic
AmongCandidates(cand, paths) == paths \subseteq {cand[i].path : i \in DOMAIN cand}

\* C11 (as claimed): when the relaxation applies with more than 10
\* candidates, the query returns the min(50, candidates) candidates with the
\* highest blended score on either path, and never an empty list.
C11_RelaxedTopBlended ==
    Relaxed =>
        \A cand \in {Candidates}, paths \in {ReturnedPaths} :
            RelaxedCount /\ AmongCandidates(cand, paths) /\ TopByBlendedScore(cand, paths)

\* C11 (amended): when the relaxation applies with more than 10 candidates,
\* the query returns min(50, candidates) items and never an empty list; on
\* the fallback path they are the candidates with the highest blended score,
\* on the index path the candidates with the highest similarity, each with
\* the similarity as its score and lexical 0.
C11_RelaxedTop ==
    Relaxed =>
        \A cand \in {Candidates}, paths \in {ReturnedPaths} :
            /\ RelaxedCount
            /\ AmongCandidates(cand, paths)
            /\ q_trace.path = "fallback" =>
                  /\ TopByBlendedScore(cand, paths)
                  /\ \A k \in DOMAIN retrieved : \E i \in DOMAIN cand :
                        retrieved[k] = cand[i]
            /\ q_trace.path = "index" =>
                  /\ TopBySimilarity(cand, paths)
                  /\ \A k \in DOMAIN retrieved :
                        /\ retrieved[k].score = 1000 * retrieved[k].semantic
                        /\ retrieved[k].lexical = 0

\* The relaxation on the index path with more candidates than it keeps
C11_Witness ==
    /\ Relaxed /\ q_trace.path = "index" /\ q_trace.survivors = 0
    /\ q_trace.candidates > RelaxTopK /\ Len(retrieved) = RelaxTopK

\* C23: when embed fails for the query text, the query ends with the
\* "Embedding failed" error; embed was called exactly once, and neither the
\* index search nor the fallback scan ran, nothing was retrieved and no
\* clusters were built.  (embed produced no vector: q_vec stays empty.)
EmbedFailed == q_trace.embed_calls > 0 /\ q_vec = <<>>
C23_EmbedFailureEndsQuery ==
    /\ q_trace.embed_calls <= 1
    /\ EmbedFailed =>
          /\ pc = "Done"
          /\ response = ErrorResponse("Embedding failed")
          /\ q_trace.embed_calls = 1
          /\ q_trace.index_searches = 0 /\ q_trace.fallback_scans = 0
          /\ q_trace.path = "none" /\ retrieved = <<>>

\* embed failed on a snapshot with rows and a healthy index pair
C23_Witness ==
    /\ EmbedFailed /\ pc = "Done"
    /\ vectors_json.exists /\ vectors_json.rows # <<>>
    /\ latest_faiss.exists /\ latest_metadata.exists /\ index_fault = "none"

\* an index file of the 'latest' pair is not there
IndexAbsent == ~latest_faiss.exists \/ ~latest_metadata.exists
\* the query ended after its text was embedded, over a snapshot with rows
\* and without the index files
EndedWithoutIndex ==
    /\ pc = "Done" /\ q_vec # <<>>
    /\ vectors_json.exists /\ vectors_json.rows # <<>> /\ IndexAbsent
NoSnapshotAnswer ==
    ~vectors_json.exists =>
        /\ pc \in {"Idle", "Done"}
        /\ pc = "Done" =>
              (response = ErrorResponse("No vector JSON found") /\ q_trace = NoTrace)

C30_RetrievedByScore ==
    PathDone =>
        /\ \A i \in DOMAIN retrieved, j \in DOMAIN retrieved :
              i < j => retrieved[i].score >= retrieved[j].score
        /\ pc = "Done" =>
              \A i \in DOMAIN response.results, j \in DOMAIN retrieved :
                  j > Len(response.results) => response.results[i].score >= retrieved[j].score

(***************************************************************************)
(* Claims about FAISSIndex (checked under SpecIndex)                       *)
(***************************************************************************)
BuiltAndTrained(self) == self.index.kind # "None" /\ self.index.trained

\* C12 (as claimed): a search on a FAISSIndex that has not been built and
\* trained fails with IndexNotTrained instead of returning a result list.
C12_UntrainedRefusesSearch ==
    (r_result.op = "search" /\ ~BuiltAndTrained(r_result.before))
        => r_result.raised = "IndexNotTrained"

LoadFailed == r_result.op = "load" /\ r_result.raised \notin {"none", "pending"}

\* C13 (as claimed): a load that fails, for whatever reason, leaves the
\* FAISSIndex object as it was before the load.
C13_FailedLoadLeavesObject == LoadFailed => r_index = r_result.before

\* the index structure and the metadata of an object come from one save
SamePair(self) ==
    /\ Len(self.metadata) = Len(self.index.vectors)
    /\ \A k \in DOMAIN self.metadata : self.index.vectors[k] = <<"vec", self.metadata[k].path>>

\* C14 (as claimed): a load that runs while the 'latest' pair is being
\* written succeeds only with an index structure and metadata of one save.
C14_LoadOnlyConsistentPair ==
    (r_result.op = "load" /\ r_result.raised = "none") => SamePair(r_index)

(***************************************************************************)
(* Claims about the embedding pool (checked under SpecPool)                *)
(***************************************************************************)
PoolDone == pool_pc = "saved"
Succeeded == {u \in DOMAIN futures : futures[u].at = "collected"}

\* C15 (as claimed): under every interleaving of the workers, after the
\* batch the cache holds an entry for every successfully embedded chunk and
\* total_saves has grown by exactly the number of cache.set calls.
C15_NoLostUpdate ==
    (PoolDone /\ cache_on) =>
        /\ \A u \in Succeeded : get_hash(futures[u].text) \in DOMAIN mem_cache
        /\ total_saves = saves_before + set_calls

(***************************************************************************)
(* Claims about cluster ranking and selection (checked under SpecRank)     *)
(***************************************************************************)
IsRanked == rank_pc \in {"select", "done"}
IsSelected == rank_pc = "done"

\* C18: the ranked list holds every cluster once, with the severity of its
\* error type and exemplar message and its number of events, and for every
\* two clusters a before b: severity(a) > severity(b), or the severities are
\* equal and freq(a) >= freq(b).
C18_RankedBySeverityThenFreq ==
    IsRanked =>
        /\ Len(cluster_list) = Len(clusters)
        /\ {cluster_list[i].fingerprint : i \in DOMAIN cluster_list} = DOMAIN clusters
        /\ \A i \in DOMAIN cluster_list :
              cluster_list[i] = Ranked(cluster_list[i].fingerprint,
                                       clusters[cluster_list[i].fingerprint])
        /\ \A i, j \in DOMAIN cluster_list :
              i < j => \/ cluster_list[i].severity > cluster_list[j].severity
                       \/ /\ cluster_list[i].severity = cluster_list[j].severity
                          /\ cluster_list[i].freq >= cluster_list[j].freq

\* a cluster of higher severity stands before one that was seen more often
C18_Witness ==
    /\ IsRanked
    /\ \E i, j \in DOMAIN cluster_list :
          /\ i < j /\ cluster_list[i].severity > cluster_list[j].severity
          /\ cluster_list[i].freq < cluster_list[j].freq
    /\ \E i, j \in DOMAIN cluster_list :
          /\ i < j /\ cluster_list[i].severity = cluster_list[j].severity
          /\ cluster_list[i].freq > cluster_list[j].freq

RECURSIVE PrefixLen(_, _)
PrefixLen(list, m) == IF m = 0 THEN 0 ELSE PrefixLen(list, m - 1) + SnipLen(list[m])
Patterns(sel) == {k \in DOMAIN sel : sel[k].kind = "pattern"}
LeftOut(list, sel) == Len(list) - Cardinality(Patterns(sel))

\* C19: the selection is the first m clusters of the ranked list, in order,
\* their snippet lengths summing to at most the budget; cluster m + 1, if
\* there is one, does not fit and nothing after it is selected; one marker
\* follows exactly when a cluster was left out, and it counts the clusters
\* left out.
C19_SelectionIsPrefix ==
    IsSelected =>
        \A list \in {cluster_list}, sel \in {selected} :
        \A m \in {Cardinality(Patterns(sel))} :
            /\ Patterns(sel) = 1..m
            /\ \A k \in 1..m : sel[k] = Pattern(list[k])
            /\ PrefixLen(list, m) <= Budget(is_broad)
            /\ m < Len(list) => PrefixLen(list, m + 1) > Budget(is_broad)
            /\ Len(sel) = IF m < Len(list) THEN m + 1 ELSE m
            /\ m < Len(list) => sel[m + 1] = Marker(Len(list) - m)

\* a cluster was cut off although a later, shorter one would still have fit
C19_Witness ==
    /\ IsSelected
    /\ \E m \in {Cardinality(Patterns(selected))} :
          /\ m > 0 /\ Len(selected) = m + 1
          /\ selected[m + 1].kind = "marker" /\ selected[m + 1].remaining > 1
          /\ \E j \in DOMAIN cluster_list :
                j > m + 1 /\ PrefixLen(cluster_list, m) + SnipLen(cluster_list[j])
                                <= Budget(is_broad)

(***************************************************************************)
(* Claims about the index topology (checked under SpecTopology)            *)
(***************************************************************************)
Created == topology # NoTopology /\ topology.raised = "none"
Clustered == topology.kind \in IVFTypes
SizedBy(cap, div, probes) ==
    /\ topology.nlist = Min(cap, n_vectors \div div)
    /\ topology.nprobe = Min(probes, topology.nlist)

SharesEntry ==
    [t \in DOMAIN CacheTexts |->
        {u \in DOMAIN CacheTexts :
            strip(SubSeq(CacheTexts[u], 1, Min(8000, Len(CacheTexts[u]))))
              = strip(SubSeq(CacheTexts[t], 1, Min(8000, Len(CacheTexts[t]))))}]
LastOp == ecache_ops[Len(ecache_ops)]
\* set number i is the last set on the entry of text t before the last call
LastSetFor(i, t) ==
    /\ i < Len(ecache_ops) /\ ecache_ops[i].op = "set" /\ ecache_ops[i].text \in SharesEntry[t]
    /\ \A j \in (i + 1)..(Len(ecache_ops) - 1) :
          ~(ecache_ops[j].op = "set" /\ ecache_ops[j].text \in SharesEntry[t])

\* C21: a get returns the value of the last set on a text whose first 8000
\* characters are equal after stripping (the text itself included), and
\* None only when there was no such set.
C21_SetThenGet ==
    (ecache_ops # <<>> /\ LastOp.op = "get") =>
        /\ \A i \in DOMAIN ecache_ops :
              LastSetFor(i, LastOp.text) => ecache_got = ecache_ops[i].value
        /\ ecache_got = <<"None">> =>
              ~\E i \in DOMAIN ecache_ops : LastSetFor(i, LastOp.text)

\* a value set under one long text is found under another one that differs
\* behind the prefix, after the entry of a third text was set in between
C21_Witness ==
    /\ Len(ecache_ops) = 3 /\ LastOp.op = "get" /\ ecache_got # <<"None">>
    /\ ecache_ops[1].op = "set" /\ ecache_ops[2].op = "set"
    /\ ecache_ops[1].text # LastOp.text /\ Len(CacheTexts[LastOp.text]) > HashPrefix
    /\ LastSetFor(1, LastOp.text)

(***************************************************************************)
(* Claims about the severity rank (checked under SpecSeverity)             *)
(***************************************************************************)
SeverityRanked == sev_out >= 0
\* the levels with a keyword in the lower-cased "error_type message"
MatchingLevels ==
    {level \in 1..5 :
        \E k \in severity_keywords[level] :
            contains(lower(sev_type \o <<" ">> \o sev_msg), k)}

Extracted == ex_done > 0
LastChunk == ex_chunks[ex_done]
\* the first 800 characters of a raw block
Prefix800(block_text) == Slice(block_text, 0, BlockPrefix)
\* the candidates are the extractors' results, concatenated in this order
ConcatenatedIn(order) ==
    ex_candidates = Flatten([k \in DOMAIN order |-> RunExtractor(order[k], LastChunk)])
\* every event was built from a candidate of the first extractor in this
\* order that yields a block with the event's first 800 characters
KeptFromEarliest(order) ==
    \A n \in DOMAIN ex_events :
        LET yielding == {k \in DOMAIN order :
                           \E c \in Range(RunExtractor(order[k], LastChunk)) :
                               Prefix800(c.block) = Prefix800(ex_events[n].excerpt)}
        IN  /\ yielding # {}
            /\ \E c \in Range(RunExtractor(order[NthOf(yielding, 1)], LastChunk)) :
                  /\ Prefix800(c.block) = Prefix800(ex_events[n].excerpt)
                  /\ ex_events[n] = BuildEvent(c.block, c.type, ex_done)

\* C25 (as claimed): the extractors run in the order Python traceback,
\* Java-like, .NET, web server, generic; their candidates are concatenated in
\* that order, and of blocks equal in the first 800 characters the event
\* kept is the one of the extractor earlier in that order.
C25_JavaBeforeDotNet ==
    Extracted =>
        /\ ConcatenatedIn(<<"python", "java", "dotnet", "nginx", "generic">>)
        /\ KeptFromEarliest(<<"python", "java", "dotnet", "nginx", "generic">>)

\* C25 (amended): the same with the order Python traceback, .NET, Java-like,
\* web server, generic.
C25_DotNetBeforeJava ==
    Extracted =>
        /\ ConcatenatedIn(<<"python", "dotnet", "java", "nginx", "generic">>)
        /\ KeptFromEarliest(<<"python", "dotnet", "java", "nginx", "generic">>)

\* the .NET and the Java-like extractor yield the same block under different
\* types, and the event kept has the type of the .NET candidate
C25_Witness ==
    /\ Extracted
    /\ \E n \in DOMAIN ex_events :
          /\ ex_events[n].error_type = W_DotNetException
          /\ \E c \in Range(extract_java_like(LastChunk)) :
                c.block = ex_events[n].excerpt /\ c.type # W_DotNetException

\* the candidates no earlier candidate agrees with on the first 800 characters
FirstOfGroup ==
    {i \in DOMAIN ex_candidates :
        \A j \in 1..(i - 1) :
            Prefix800(ex_candidates[j].block) # Prefix800(ex_candidates[i].block)}

\* C26: no two events returned by one extract call have raw blocks that
\* agree on their first 800 characters; of each group of candidates that
\* agree exactly the first in concatenation order yields an event, in that
\* order; there are no more events than candidates.
C26_FirstCandidateWins ==
    Extracted =>
        /\ \A m \in DOMAIN ex_events, n \in DOMAIN ex_events :
              m # n => Prefix800(ex_events[m].excerpt) # Prefix800(ex_events[n].excerpt)
        /\ Len(ex_events) = Cardinality(FirstOfGroup)
        /\ \A n \in DOMAIN ex_events :
              LET c == ex_candidates[NthOf(FirstOfGroup, n)]
              IN  ex_events[n] = BuildEvent(c.block, c.type, ex_done)
        /\ Len(ex_events) <= Len(ex_candidates)

\* two candidates with different blocks of more than 800 characters that
\* agree on the first 800, and one event for them
C26_Witness ==
    /\ Extracted
    /\ \E i \in DOMAIN ex_candidates, j \in DOMAIN ex_candidates :
          /\ i < j /\ i \in FirstOfGroup /\ j \notin FirstOfGroup
          /\ ex_candidates[i].block # ex_candidates[j].block
          /\ Prefix800(ex_candidates[i].block) = Prefix800(ex_candidates[j].block)
          /\ \E n \in DOMAIN ex_events : ex_events[n].excerpt = ex_candidates[i].block
          /\ \A n \in DOMAIN ex_events : ex_events[n].excerpt # ex_candidates[j].block

\* the head lines of the error occurrences in the source log
OccurrenceHeads ==
    [k \in {i \in DOMAIN ex_log.stanzas : ex_log.stanzas[i] # "info"} |->
        strip(ErrorLines(ex_log.stanzas[k], k)[1])]
CountWhere(seq, P(_)) == Cardinality({k \in DOMAIN seq : P(seq[k])})

\* C27 (as claimed): each error occurrence of the source log contributes
\* exactly one event to the cluster of its fingerprint, so that no cluster
\* holds more events with the head line of an error than the log has
\* occurrences with that head line, and a log of n occurrences of one error
\* that differ in their line number only gives one cluster of frequency n.
C27_OneEventPerOccurrence ==
    ex_pc = "clustered" =>
        /\ \A c \in DOMAIN ex_clusters, o \in DOMAIN OccurrenceHeads :
              CountWhere(ex_clusters[c].events, LAMBDA ev : ev.message = OccurrenceHeads[o])
                  <= Cardinality({i \in DOMAIN OccurrenceHeads :
                                    OccurrenceHeads[i] = OccurrenceHeads[o]})
        /\ (\A k \in DOMAIN ex_log.stanzas : ex_log.stanzas[k] \in {"npe", "npe_ctx"})
              => (Len(ex_clusters) = 1 /\ ex_clusters[1].freq = Len(ex_log.stanzas))

(***************************************************************************)
(* Claims about ingest over folders (checked under SpecIngest)             *)
(***************************************************************************)
FirstRun == ing_runs[1]
ChunkFilesOnDisk == {n \in DOMAIN log_folder : n.idx # <<>>}

\* C28 (as claimed): during one ingest, chunks with different identities
\* (source file, sequence index) are written to different chunk files, also
\* for two sources that differ only in their extension, and after an ingest
\* into a folder without chunk files the number of chunk files on disk is
\* the reported chunk count.
C28_OneFilePerChunk ==
    Len(ing_runs) = 1 =>
        /\ \A a \in DOMAIN FirstRun.saved, b \in DOMAIN FirstRun.saved :
              a # b => FirstRun.saved[a].path # FirstRun.saved[b].path
        /\ Cardinality(ChunkFilesOnDisk) = FirstRun.chunks

\* C29 (as claimed): a second fetch_local_logs with the arguments of the
\* first, on an unchanged source folder or on the default input folder
\* (LOG_FOLDER itself), leaves the chunk files of the first and reports
\* its file and chunk counts; no chunk file is itself ingested.
SameArguments(r, q) == r.chunk_size = q.chunk_size /\ r.overlap = q.overlap
C29_IngestIdempotent ==
    (Len(ing_runs) = 2 /\ SameArguments(ing_runs[1], ing_runs[2])) =>
        /\ ing_runs[2].after = ing_runs[1].after
        /\ ing_runs[2].files = ing_runs[1].files
        /\ ing_runs[2].chunks = ing_runs[1].chunks
        /\ \A k \in DOMAIN ing_runs[2].saved : ing_runs[2].saved[k].source.idx = <<>>

====
